---- MODULE Spec2Model ----
(***************************************************************************)
(* A model of salmon's streaming quantification engine                     *)
(* (src/Sailfish/src/SalmonQuantify.cpp): the pipeline driver              *)
(* quantifyLibrary with its mapping workers, cache writer, cache reader    *)
(* and EM workers, ReadExperiment's round bookkeeping, the greedy coverage *)
(* chainer of TranscriptHitList, the hit collector and the mini-batch EM   *)
(* worker.                                                                 *)
(*                                                                         *)
(* The module holds several specifications over one set of variables:      *)
(*   Spec       the pipeline driver and its threads                        *)
(*   SpecChain  TranscriptHitList: addFragMatch / computeBestChain         *)
(*   SpecCollect collectHitsForRead over a seed set                        *)
(*   SpecEM     processMiniBatch over a mini-batch                         *)
(*   SpecSer    one record of the mapping cache, written and read back     *)
(*   SpecFormat logAlignFormatProb of one alignment                        *)
(*   SpecPair   getHitsForFragment for a paired-end fragment               *)
(*   SpecMass   the forgetting mass and the workers that update it         *)
(*   SpecReset  ReadExperiment::reset / softReset from any counter values  *)
(*   SpecLive   the pipeline under fair scheduling, for termination        *)
(* Each specification leaves the variables of the others untouched.        *)
(***************************************************************************)
EXTENDS Integers, Sequences, FiniteSets, TLC

(***************************************************************************)
(* Bounds of the model.  The sizes of the program (1000 groups in a        *)
(* mini-batch, 5,000,000 burn-in fragments, 100 read occurrences) are      *)
(* scaled down so that every threshold is crossed within a few fragments.  *)
(***************************************************************************)
\* numQuantThreads: mapping / EM worker threads per library
NumThreads == 2
\* miniBatchSize (1000 in the source), scaled
MiniBatchSize == 1
\* numBurninFrags (5,000,000 in the source), scaled
NumBurninFrags == 1
\* salmonOpts.maxReadOccs (default 100), scaled
MaxReadOccs == 1
\* read libraries of an experiment
MaxLibs == 2
\* fragments the read libraries of an experiment yield in one pass, in all
MaxFrags == 2
\* largest numRequiredFragments tried
MaxRequired == 2
\* passes of the outer loop the model follows
MaxRounds == 2
\* structCacheSize = numQuantThreads * maxReadGroup * 10
PoolFactor == 10
\* length of the read whose votes are chained
ReadLen == 3
\* votes (forward and reverse-complement together) of one TranscriptHitList
MaxVotes == 2
\* transcript positions 0..MaxTPos of a match, and one position far to the right
MaxTPos == 1
\* computeBestLoc_: a vote more than 10 bases right of the cluster opens a new one
ClusterGap == 10
\* seeds (MEMs) of one read
MaxSeeds == 2
\* largest interval size p->x[2] of a seed (its number of occurrences)
MaxInterval == 3
\* largest memOptions->max_occ tried
MaxOccBound == 2
\* memOptions->min_seed_len (default 19), scaled
MinSeedLen == 2
\* length of every transcript of the packed reference
TLen == 4
\* transcripts of the packed reference
NumRefs == 2
\* numTranscripts = transcripts.size() of the mini-batch EM worker
NumTranscripts == 2
\* size of a mini-batch: its alignments plus its empty alignment groups
MaxAlns == 2

\* largest value of a numeric field of a cached alignment
MaxField == 1
\* largest number of alignments of a cached group
MaxGroupLen == 2

\* the scores of an end are 0, 2, ..., 2 * ScoreSteps
ScoreSteps == 2
\* rightmost start of an end in a transcript
MaxPairPos == 2

VARIABLES
  \* ---- inputs of quantifyLibrary
  numRequiredFragments, disableMappingCache, readLibraries,
  \* ---- the number of passes of the outer loop that are followed
  roundLimit,
  \* ---- quantifyLibrary
  pc, numObservedFragments, numPrevObservedFragments, initialRound,
  cacheFiles, groupCache, roundNum, warnings, libIdx,
  \* ---- ReadExperiment
  numObservedFragments_, numAssignedFragments_, totalAssignedFragments_,
  batchNum_, burnedIn,
  \* (quantificationPasses_ has no initializer: its value is an indeterminate
  \* size_t plus the increments applied to it, and the variable holds the
  \* increments)
  quantificationPasses_,
  \* ---- history: burnedIn has been true at some moment of the run
  burnInSeen,
  \* ---- one round
  writeToCache, outputGroups, alnGroupQueue, finishedParsing, numValidHits,
  \* ---- worker threads (processReadsMEM / processCachedAlignmentsHelper)
  parserNext, wpc, job, hitLists,
  \* ---- cache writer and cache reader threads
  cwpc, crpc, numRead,
  \* ---- history: what the EM workers processed in the current round
  emProcessed,
  \* ---- TranscriptHitList (one transcript, one read)
  \* (bestHitScore is the pair <<numerator, denominator>> of the double)
  votes, rcVotes, bestHitPos, bestHitCount, bestHitScore, isForward_, chpc,
  \* ---- collectHitsForRead
  maxOcc, splitSpanningSeeds, mem, memI, occK, count, step, slen,
  numVotes, lastVote, cpc,
  \* ---- processMiniBatch
  transcripts, batchHits, updateCounts, emBurnedIn, emNumAssigned, gIdx, mKeys,
  libTypeCounts, fldAdds, clusterCredits, oobAccesses, oobLogged, empc,
  \* ---- one record of the mapping cache (AlignmentGroup::serialize)
  cacheGroup, cacheRecord, loadGroup, serpc,
  \* ---- the format term of one alignment (logAlignFormatProb)
  observedFormat, expectedLibraryFormat, useReadCompat, logFormatProb,
  logAlignCompatProb, fmtpc,
  \* ---- getHitsForFragment, paired-end
  leftHits, rightHits, coverageThresh, rightReadLength, rightDone, alnList,
  pairpc,
  \* ---- the forgetting mass and the workers that update it
  numBatches, batchNum, logForgettingMass, ffMutex, mpc, oldBatchNum, massRead,
  \* ---- history: batch numbers whose increment was applied, and the pairs
  \* <<batch number, mass>> passed to processMiniBatch
  applied, passed

inputVars  == <<numRequiredFragments, disableMappingCache, readLibraries,
                roundLimit>>
driverVars == <<pc, numObservedFragments, numPrevObservedFragments, initialRound,
                cacheFiles, groupCache, roundNum, warnings, libIdx>>
expVars    == <<numObservedFragments_, numAssignedFragments_,
                totalAssignedFragments_, batchNum_, burnedIn,
                quantificationPasses_, burnInSeen>>
roundVars  == <<writeToCache, outputGroups, alnGroupQueue, finishedParsing, numValidHits>>
workerVars == <<parserNext, wpc, job, hitLists>>
cacheVars  == <<cwpc, crpc, numRead>>
pipeVars   == <<inputVars, driverVars, expVars, roundVars, workerVars, cacheVars,
                emProcessed>>

chainVars  == <<votes, rcVotes, bestHitPos, bestHitCount, bestHitScore, isForward_,
               chpc>>

collectVars == <<maxOcc, splitSpanningSeeds, mem, memI, occK, count, step, slen,
                 numVotes, lastVote, cpc>>

emVars == <<transcripts, batchHits, updateCounts, emBurnedIn, emNumAssigned,
            gIdx, mKeys, libTypeCounts, fldAdds, clusterCredits, oobAccesses,
            oobLogged, empc>>

serVars == <<cacheGroup, cacheRecord, loadGroup, serpc>>

\* the sections that model one function on its own
fmtVars == <<observedFormat, expectedLibraryFormat, useReadCompat, logFormatProb,
             logAlignCompatProb, fmtpc>>

pairVars == <<leftHits, rightHits, coverageThresh, rightReadLength, rightDone,
              alnList, pairpc>>

massVars == <<numBatches, batchNum, logForgettingMass, ffMutex, mpc, oldBatchNum,
              massRead, applied, passed>>

pureVars == <<serVars, fmtVars, pairVars, massVars>>

vars == <<pipeVars, chainVars, collectVars, emVars, pureVars>>

\* what the pipeline leaves alone
offPipeVars == <<chainVars, collectVars, emVars, pureVars>>

Workers == 1..NumThreads

Min(a, b) == IF a < b THEN a ELSE b

RECURSIVE SumSeq(_)
SumSeq(s) == IF s = <<>> THEN 0 ELSE Head(s) + SumSeq(Tail(s))

\* the first n elements of s, and the rest
Take(s, n) == SubSeq(s, 1, n)
Drop(s, n) == SubSeq(s, n + 1, Len(s))

(***************************************************************************)
(* An alignment group in flight is <<library, record, size, hits>>: the    *)
(* library and fragment (or cache record) it holds, its number of          *)
(* alignments, and the number of alignments getHitsForFragment (or the     *)
(* cache reader) put into it before any clearing.                          *)
(* The pool groupCache holds interchangeable empty objects and is a count. *)
(***************************************************************************)
GroupSize(g) == g[3]
FoundHits(g) == g[4]

\* structCacheSize, quantifyLibrary
structCacheSize == NumThreads * MiniBatchSize * PoolFactor

\* processMiniBatch: a group counts as assigned when it is not empty and the
\* sum of its alignment probabilities is not LOG_0.  Transcript masses start at
\* log(alpha) and only grow, and useReadCompat is off by default, so every
\* non-empty group is assigned.
IsAssigned(g) == GroupSize(g) > 0

localNumAssignedFragments(batch) ==
  Cardinality({i \in 1..Len(batch) : IsAssigned(batch[i])})

\* processMiniBatch, its last lines: the per-round counter is advanced and
\* burnedIn is set from the per-round counter
BurnedInAfter(numAssigned, b) ==
  IF numAssigned >= NumBurninFrags /\ ~b THEN TRUE ELSE b

\* ReadExperiment::processReads, first line
BurnedInAtRoundStart ==
  totalAssignedFragments_ + numAssignedFragments_ > NumBurninFrags

NumLibs == Len(readLibraries)
TotalFrags == SumSeq([i \in 1..NumLibs |-> readLibraries[i].n])

\* ReadLibrary::isRegularFile over all libraries, as ReadExperiment::reset tests it
AllRegular == \A i \in 1..NumLibs : readLibraries[i].regular

\* a reset that does not look at the kind of the read files
resetIgnoresFileKind == TRUE

\* ReadExperiment::reset: false, and nothing changed, when a read file is not
\* a regular file
resetSucceeds == AllRegular

\* a softReset that reports failure
softResetFails == FALSE

\* ReadExperiment::softReset: always true
softResetSucceeds == TRUE

\* quantifyLibrary: didReset
didReset == IF disableMappingCache THEN resetSucceeds ELSE softResetSucceeds

mappingRound == initialRound \/ disableMappingCache

(***************************************************************************)
(* Init: the state quantifyLibrary starts from, for every input tried.     *)
(***************************************************************************)
LibrarySet == [n : 0..MaxFrags, regular : BOOLEAN]

\* The experiments tried: up to MaxLibs libraries yielding up to MaxFrags
\* fragments in all.  ReadExperiment::reset only asks whether some library is
\* not a regular file, so only the first library is tried as a pipe.
InputSet ==
  {libs \in UNION {[1..k -> LibrarySet] : k \in 1..MaxLibs} :
     /\ SumSeq([i \in 1..Len(libs) |-> libs[i].n]) <= MaxFrags
     /\ \A i \in 2..Len(libs) : libs[i].regular}

\* the inputs of quantifyLibrary
PipeInputs ==
  /\ numRequiredFragments \in 1..MaxRequired
  /\ disableMappingCache \in BOOLEAN
  /\ readLibraries \in InputSet
  /\ roundLimit = MaxRounds

\* quantifyLibrary before its outer loop: the counters at 0, the group pool
\* full, no thread running
PipeStart ==
  /\ pc = "loopTest"
  /\ numObservedFragments = 0
  /\ numPrevObservedFragments = 0
  /\ initialRound = TRUE
  /\ cacheFiles = <<>>
  /\ groupCache = structCacheSize
  /\ roundNum = 0
  /\ warnings = 0
  /\ libIdx = 0
  /\ numObservedFragments_ = 0
  /\ numAssignedFragments_ = 0
  /\ totalAssignedFragments_ = 0
  /\ batchNum_ = 0
  /\ burnedIn = FALSE
  /\ quantificationPasses_ = 0
  /\ burnInSeen = FALSE
  /\ writeToCache = FALSE
  /\ outputGroups = <<>>
  /\ alnGroupQueue = <<>>
  /\ finishedParsing = FALSE
  /\ numValidHits = 0
  /\ parserNext = 1
  /\ wpc = [w \in Workers |-> "none"]
  /\ job = [w \in Workers |-> <<>>]
  /\ hitLists = [w \in Workers |-> <<>>]
  /\ cwpc = "none"
  /\ crpc = "none"
  /\ numRead = 0
  /\ emProcessed = <<>>

PipeInit == PipeInputs /\ PipeStart

(***************************************************************************)
(* quantifyLibrary: the outer loop                                         *)
(*   while (numObservedFragments < numRequiredFragments) { ... }           *)
(***************************************************************************)
\* the loop test fails: leave the loop
OuterLoopExit ==
  /\ pc = "loopTest"
  /\ ~(numObservedFragments < numRequiredFragments)
  /\ pc' = "done"
  /\ UNCHANGED <<offPipeVars, inputVars, numObservedFragments, numPrevObservedFragments,
                 initialRound, cacheFiles, groupCache, roundNum, warnings, libIdx,
                 expVars, roundVars, workerVars, cacheVars, emProcessed>>

\* the first pass: no reset
FirstRound ==
  /\ pc = "loopTest"
  /\ numObservedFragments < numRequiredFragments
  /\ initialRound
  /\ roundNum < roundLimit
  /\ pc' = "processReads"
  /\ roundNum' = roundNum + 1
  /\ UNCHANGED <<offPipeVars, inputVars, numObservedFragments, numPrevObservedFragments,
                 initialRound, cacheFiles, groupCache, warnings, libIdx,
                 expVars, roundVars, workerVars, cacheVars, emProcessed>>

\* a later pass: experiment.reset() or experiment.softReset() succeeded.
\* Both zero the per-round counter and keep the running total.
ResetAndContinue ==
  /\ pc = "loopTest"
  /\ numObservedFragments < numRequiredFragments
  /\ ~initialRound
  /\ didReset
  /\ roundNum < roundLimit
  /\ numObservedFragments_' = 0
  /\ totalAssignedFragments_' = totalAssignedFragments_ + numAssignedFragments_
  /\ numAssignedFragments_' = 0
  /\ quantificationPasses_' = quantificationPasses_ + 1
  /\ numPrevObservedFragments' = numObservedFragments
  /\ pc' = "processReads"
  /\ roundNum' = roundNum + 1
  /\ UNCHANGED <<offPipeVars, inputVars, numObservedFragments, initialRound, cacheFiles,
                 groupCache, warnings, libIdx, batchNum_, burnedIn, burnInSeen,
                 roundVars, workerVars, cacheVars, emProcessed>>

\* a later pass is needed and the reset failed: warn and break
WarnAndBreak ==
  /\ pc = "loopTest"
  /\ numObservedFragments < numRequiredFragments
  /\ ~initialRound
  /\ ~didReset
  /\ warnings' = warnings + 1
  /\ pc' = "done"
  /\ UNCHANGED <<offPipeVars, inputVars, numObservedFragments, numPrevObservedFragments,
                 initialRound, cacheFiles, groupCache, roundNum, libIdx,
                 expVars, roundVars, workerVars, cacheVars, emProcessed>>

\* ReadExperiment::processReads is entered: burnedIn is a local of it, computed
\* from the counters; the round's queues are constructed
processReads ==
  /\ pc = "processReads"
  /\ burnedIn' = BurnedInAtRoundStart
  /\ burnInSeen' = (burnInSeen \/ burnedIn')
  /\ libIdx' = 1
  /\ outputGroups' = <<>>
  /\ alnGroupQueue' = <<>>
  /\ writeToCache' = IF mappingRound THEN ~disableMappingCache ELSE FALSE
  /\ emProcessed' = <<>>
  /\ pc' = "callback"
  /\ UNCHANGED <<offPipeVars, inputVars, numObservedFragments, numPrevObservedFragments,
                 initialRound, cacheFiles, groupCache, roundNum, warnings,
                 numObservedFragments_, numAssignedFragments_,
                 totalAssignedFragments_, batchNum_, quantificationPasses_,
                 finishedParsing, numValidHits, workerVars, cacheVars>>

\* the mapping-round callback for library libIdx: a cache file entry is
\* appended and, when writeToCache holds, the `if (writeToCache)` block
\* constructs the BinaryOutputArchive and starts the cache writer with a
\* reference to it
MappingCallbackBegin ==
  /\ pc = "callback"
  /\ mappingRound
  /\ cacheFiles' = Append(cacheFiles, [numWritten |-> 0, records |-> <<>>,
                                       archiveLive |-> TRUE,
                                       archiveInScope |-> writeToCache])
  /\ cwpc' = IF writeToCache THEN "outer" ELSE "none"
  /\ pc' = "archiveBlock"
  /\ UNCHANGED <<offPipeVars, inputVars, numObservedFragments, numPrevObservedFragments,
                 initialRound, groupCache, roundNum, warnings, libIdx, expVars,
                 roundVars, workerVars, crpc, numRead, emProcessed>>

\* the `if (writeToCache)` block ends and processReadLibrary starts the
\* mapping workers.  The archive is a local of the block and is destroyed
\* here, while the writer thread keeps its reference: from now on the writer
\* works through a dangling reference, and whether its writes still reach
\* the file (archiveLive) is not defined.
ArchiveBlockEnd ==
  /\ pc = "archiveBlock"
  /\ \E live \in (IF cacheFiles[Len(cacheFiles)].archiveInScope
                     THEN BOOLEAN ELSE {TRUE}) :
       cacheFiles' = [cacheFiles EXCEPT ![Len(cacheFiles)].archiveLive = live,
                                       ![Len(cacheFiles)].archiveInScope = FALSE]
  /\ numValidHits' = 0
  /\ parserNext' = 1
  /\ wpc' = [w \in Workers |-> "job"]
  /\ job' = [w \in Workers |-> <<>>]
  /\ hitLists' = [w \in Workers |-> <<>>]
  /\ pc' = "mapping"
  /\ UNCHANGED <<offPipeVars, inputVars, numObservedFragments, numPrevObservedFragments,
                 initialRound, groupCache, roundNum, warnings, libIdx, expVars,
                 writeToCache, outputGroups, alnGroupQueue, finishedParsing,
                 cacheVars, emProcessed>>

\* processReadLibrary returned (the mapping workers are joined):
\* writeToCache = false
MappingWorkersJoined ==
  /\ pc = "mapping"
  /\ \A w \in Workers : wpc[w] = "done"
  /\ writeToCache' = FALSE
  /\ pc' = "joinWriter"
  /\ UNCHANGED <<offPipeVars, inputVars, numObservedFragments, numPrevObservedFragments,
                 initialRound, cacheFiles, groupCache, roundNum, warnings, libIdx,
                 expVars, outputGroups, alnGroupQueue, finishedParsing,
                 numValidHits, workerVars, cacheVars, emProcessed>>

LastLib == libIdx = NumLibs

\* the cache writer is joined (when there is one) and the callback returns
MappingCallbackEnd ==
  /\ pc = "joinWriter"
  /\ cwpc \in {"none", "done"}
  /\ cwpc' = "none"
  /\ wpc' = [w \in Workers |-> "none"]
  /\ IF LastLib
       THEN pc' = "roundEnd" /\ libIdx' = libIdx
       ELSE pc' = "callback" /\ libIdx' = libIdx + 1
  /\ UNCHANGED <<offPipeVars, inputVars, numObservedFragments, numPrevObservedFragments,
                 initialRound, cacheFiles, groupCache, roundNum, warnings,
                 expVars, roundVars, parserNext, job, hitLists, crpc, numRead,
                 emProcessed>>

\* the cache-round callback for library libIdx (libNum in the source): the
\* reader thread and the EM workers are started
CacheCallbackBegin ==
  /\ pc = "callback"
  /\ ~mappingRound
  /\ finishedParsing' = FALSE
  /\ crpc' = "read"
  /\ numRead' = 0
  /\ numValidHits' = 0
  /\ wpc' = [w \in Workers |-> "outer"]
  /\ hitLists' = [w \in Workers |-> <<>>]
  /\ pc' = "replay"
  /\ UNCHANGED <<offPipeVars, inputVars, numObservedFragments, numPrevObservedFragments,
                 initialRound, cacheFiles, groupCache, roundNum, warnings, libIdx,
                 expVars, writeToCache, outputGroups, alnGroupQueue,
                 parserNext, job, cwpc, emProcessed>>

\* processCachedAlignments returned (the EM workers are joined) and the cache
\* reader is joined
CacheCallbackEnd ==
  /\ pc = "replay"
  /\ \A w \in Workers : wpc[w] = "done"
  /\ crpc = "done"
  /\ crpc' = "none"
  /\ wpc' = [w \in Workers |-> "none"]
  /\ IF LastLib
       THEN pc' = "roundEnd" /\ libIdx' = libIdx
       ELSE pc' = "callback" /\ libIdx' = libIdx + 1
  /\ UNCHANGED <<offPipeVars, inputVars, numObservedFragments, numPrevObservedFragments,
                 initialRound, cacheFiles, groupCache, roundNum, warnings,
                 expVars, roundVars, parserNext, job, hitLists, cwpc, numRead,
                 emProcessed>>

\* the end of the loop body: the round's outputGroups / alignmentGroupQueue go
\* out of scope with whatever they still hold; initialRound = false
RoundEnd ==
  /\ pc = "roundEnd"
  /\ initialRound' = FALSE
  /\ outputGroups' = <<>>
  /\ alnGroupQueue' = <<>>
  /\ pc' = "loopTest"
  /\ UNCHANGED <<offPipeVars, inputVars, numObservedFragments, numPrevObservedFragments,
                 cacheFiles, groupCache, roundNum, warnings, libIdx,
                 expVars, writeToCache, finishedParsing, numValidHits,
                 workerVars, cacheVars, emProcessed>>

(***************************************************************************)
(* processReadsMEM: one mapping worker w                                   *)
(***************************************************************************)
\* the fragments of the library that the parser has not handed out yet
FragsLeft == readLibraries[libIdx].n - (parserNext - 1)

\* ParserT::job j(*parser): a job of at most miniBatchSize reads, or an empty
\* job once the input is exhausted, and then the worker returns
MapGetJob(w) ==
  /\ pc = "mapping"
  /\ wpc[w] = "job"
  /\ IF FragsLeft = 0
       THEN /\ wpc' = [wpc EXCEPT ![w] = "done"]
            /\ UNCHANGED <<parserNext, job>>
       ELSE LET nb_filled == Min(MiniBatchSize, FragsLeft) IN
            /\ job' = [job EXCEPT ![w] =
                         [i \in 1..nb_filled |-> parserNext + i - 1]]
            /\ parserNext' = parserNext + nb_filled
            /\ wpc' = [wpc EXCEPT ![w] = "map"]
  /\ UNCHANGED <<offPipeVars, inputVars, driverVars, expVars, roundVars, hitLists, cacheVars,
                 emProcessed>>

\* a clearing test that also discards a group of exactly maxReadOccs alignments
KeptSizeInclusive(h) == IF h >= MaxReadOccs THEN 0 ELSE h

\* the group size kept for a fragment that getHitsForFragment gave h
\* alignments: a read that maps to more than maxReadOccs places is discarded
KeptSize(h) == IF h > MaxReadOccs THEN 0 ELSE h

\* one read of the job: a group is taken from the pool (busy wait), filled by
\* getHitsForFragment, cleared when it holds more than maxReadOccs alignments,
\* and counted in validHits and numObservedFragments
MapRead(w) ==
  /\ pc = "mapping"
  /\ wpc[w] = "map"
  /\ groupCache > 0
  /\ \E h \in 0..(MaxReadOccs + 1) :
       /\ hitLists' = [hitLists EXCEPT ![w] =
                         Append(@, <<libIdx, Head(job[w]), KeptSize(h), h>>)]
       /\ numValidHits' = numValidHits + KeptSize(h)
  /\ groupCache' = groupCache - 1
  /\ numObservedFragments' = numObservedFragments + 1
  /\ job' = [job EXCEPT ![w] = Tail(@)]
  /\ wpc' = [wpc EXCEPT ![w] = IF Len(job[w]) = 1 THEN "batch" ELSE "map"]
  /\ UNCHANGED <<offPipeVars, inputVars, pc, numPrevObservedFragments, initialRound,
                 cacheFiles, roundNum, warnings, libIdx, expVars,
                 writeToCache, outputGroups, alnGroupQueue, finishedParsing,
                 parserNext, cacheVars, emProcessed>>

\* the end of a job: batchNum++, processMiniBatch over hitLists, then the test
\* of writeToCache that decides where the groups go
MapBatch(w) ==
  /\ pc = "mapping"
  /\ wpc[w] = "batch"
  /\ batchNum_' = batchNum_ + 1
  /\ numAssignedFragments_' =
       numAssignedFragments_ + localNumAssignedFragments(hitLists[w])
  /\ burnedIn' = BurnedInAfter(numAssignedFragments_', burnedIn)
  /\ burnInSeen' = (burnInSeen \/ burnedIn')
  /\ wpc' = [wpc EXCEPT ![w] = IF writeToCache THEN "toOutput" ELSE "toPool"]
  /\ UNCHANGED <<offPipeVars, inputVars, driverVars, numObservedFragments_,
                 totalAssignedFragments_, quantificationPasses_, roundVars,
                 parserNext, job, hitLists,
                 cacheVars, emProcessed>>

\* outputGroups.enqueue_bulk(hitLists): the groups go to the cache writer
MapEnqueueOutput(w) ==
  /\ pc = "mapping"
  /\ wpc[w] = "toOutput"
  /\ outputGroups' = outputGroups \o hitLists[w]
  /\ hitLists' = [hitLists EXCEPT ![w] = <<>>]
  /\ wpc' = [wpc EXCEPT ![w] = "job"]
  /\ UNCHANGED <<offPipeVars, inputVars, driverVars, expVars, writeToCache, alnGroupQueue,
                 finishedParsing, numValidHits, parserNext, job, cacheVars,
                 emProcessed>>

\* structureCache.enqueue_bulk(hitLists): the groups go back to the pool
MapEnqueuePool(w) ==
  /\ pc = "mapping"
  /\ wpc[w] = "toPool"
  /\ groupCache' = groupCache + Len(hitLists[w])
  /\ hitLists' = [hitLists EXCEPT ![w] = <<>>]
  /\ wpc' = [wpc EXCEPT ![w] = "job"]
  /\ UNCHANGED <<offPipeVars, inputVars, pc, numObservedFragments, numPrevObservedFragments,
                 initialRound, cacheFiles, roundNum, warnings, libIdx, expVars,
                 roundVars, parserNext, job, cacheVars, emProcessed>>

(***************************************************************************)
(* writeAlignmentCacheToFile: the cache writer thread of a library         *)
(***************************************************************************)
\* the groups written to the current library's cache file
WriteRecords(cf, groups) ==
  [numWritten |-> cf.numWritten + Len(groups),
   records |-> IF cf.archiveLive
                 THEN cf.records \o [i \in 1..Len(groups) |-> GroupSize(groups[i])]
                 ELSE cf.records,
   archiveLive |-> cf.archiveLive,
   archiveInScope |-> cf.archiveInScope]

\* while (writeToCache)
WriterOuterTest ==
  /\ cwpc = "outer"
  /\ cwpc' = IF writeToCache THEN "inner" ELSE "drain"
  /\ UNCHANGED <<offPipeVars, inputVars, driverVars, expVars, roundVars, workerVars, crpc,
                 numRead, emProcessed>>

\* while ((numDequed = outputGroups.try_dequeue_bulk(alnGroups, blockSize)) > 0):
\* a block is written and its groups are returned to the pool
WriterBlock ==
  /\ cwpc = "inner"
  /\ IF outputGroups = <<>>
       THEN /\ cwpc' = "outer"
            /\ UNCHANGED <<outputGroups, cacheFiles, groupCache>>
       ELSE LET numDequed == Min(MiniBatchSize, Len(outputGroups)) IN
            /\ cacheFiles' = [cacheFiles EXCEPT ![Len(cacheFiles)] =
                                WriteRecords(@, Take(outputGroups, numDequed))]
            /\ outputGroups' = Drop(outputGroups, numDequed)
            /\ groupCache' = groupCache + numDequed
            /\ cwpc' = "check"
  /\ UNCHANGED <<offPipeVars, inputVars, pc, numObservedFragments, numPrevObservedFragments,
                 initialRound, roundNum, warnings, libIdx, expVars, writeToCache,
                 alnGroupQueue, finishedParsing, numValidHits, workerVars, crpc,
                 numRead, emProcessed>>

\* if (numObservedFragments > numRequiredFragments) writeToCache = false
WriterCheck ==
  /\ cwpc = "check"
  /\ writeToCache' = IF numObservedFragments > numRequiredFragments
                       THEN FALSE ELSE writeToCache
  /\ cwpc' = "inner"
  /\ UNCHANGED <<offPipeVars, inputVars, driverVars, expVars, outputGroups, alnGroupQueue,
                 finishedParsing, numValidHits, workerVars, crpc, numRead,
                 emProcessed>>

\* while (outputGroups.try_dequeue(alnGroups[0])): the final drain, one group
\* at a time; the thread returns when the queue is seen empty
WriterDrain ==
  /\ cwpc = "drain"
  /\ IF outputGroups = <<>>
       THEN /\ cwpc' = "done"
            /\ UNCHANGED <<outputGroups, cacheFiles, groupCache>>
       ELSE /\ cacheFiles' = [cacheFiles EXCEPT ![Len(cacheFiles)] =
                                WriteRecords(@, Take(outputGroups, 1))]
            /\ outputGroups' = Tail(outputGroups)
            /\ groupCache' = groupCache + 1
            /\ cwpc' = "drain"
  /\ UNCHANGED <<offPipeVars, inputVars, pc, numObservedFragments, numPrevObservedFragments,
                 initialRound, roundNum, warnings, libIdx, expVars, writeToCache,
                 alnGroupQueue, finishedParsing, numValidHits, workerVars, crpc,
                 numRead, emProcessed>>

(***************************************************************************)
(* readAlignmentCache: the cache reader thread of a library                *)
(***************************************************************************)
\* one record: a group is taken from the pool (busy wait), the record is
\* deserialized into it and the group is enqueued
ReaderRead ==
  /\ crpc = "read"
  /\ numRead < cacheFiles[libIdx].numWritten
  /\ numRead < Len(cacheFiles[libIdx].records)
  /\ groupCache > 0
  /\ groupCache' = groupCache - 1
  /\ alnGroupQueue' = Append(alnGroupQueue,
                        <<libIdx, numRead + 1, cacheFiles[libIdx].records[numRead + 1],
                          cacheFiles[libIdx].records[numRead + 1]>>)
  /\ numRead' = numRead + 1
  /\ UNCHANGED <<offPipeVars, inputVars, pc, numObservedFragments, numPrevObservedFragments,
                 initialRound, cacheFiles, roundNum, warnings, libIdx, expVars,
                 writeToCache, outputGroups, finishedParsing, numValidHits,
                 workerVars, cwpc, crpc, emProcessed>>

\* the file holds fewer records than the writer counted: inputArchive throws
\* out of the reader thread, which ends the process
ReaderThrow ==
  /\ crpc = "read"
  /\ numRead < cacheFiles[libIdx].numWritten
  /\ ~(numRead < Len(cacheFiles[libIdx].records))
  /\ groupCache > 0
  /\ groupCache' = groupCache - 1
  /\ crpc' = "crashed"
  /\ UNCHANGED <<offPipeVars, inputVars, pc, numObservedFragments, numPrevObservedFragments,
                 initialRound, cacheFiles, roundNum, warnings, libIdx, expVars,
                 roundVars, workerVars, cwpc, numRead, emProcessed>>

\* finishedParsing = true, after the last record
ReaderFinish ==
  /\ crpc = "read"
  /\ ~(numRead < cacheFiles[libIdx].numWritten)
  /\ finishedParsing' = TRUE
  /\ crpc' = "done"
  /\ UNCHANGED <<offPipeVars, inputVars, driverVars, expVars, writeToCache, outputGroups,
                 alnGroupQueue, numValidHits, workerVars, cwpc, numRead,
                 emProcessed>>

(***************************************************************************)
(* processCachedAlignmentsHelper: one EM worker w of a cache-read round.   *)
(* cacheExhausted is the reader's finishedParsing.                         *)
(***************************************************************************)
\* while (!cacheExhausted)
EmOuterTest(w) ==
  /\ pc = "replay"
  /\ wpc[w] = "outer"
  /\ wpc' = [wpc EXCEPT ![w] = IF finishedParsing THEN "done" ELSE "inner"]
  /\ hitLists' = [hitLists EXCEPT ![w] = <<>>]
  /\ UNCHANGED <<offPipeVars, inputVars, driverVars, expVars, roundVars, parserNext, job,
                 cacheVars, emProcessed>>

\* while (!cacheExhausted and numConsumed < batchCount)
EmInnerTest(w) ==
  /\ pc = "replay"
  /\ wpc[w] = "inner"
  /\ wpc' = [wpc EXCEPT ![w] =
               IF ~finishedParsing /\ Len(hitLists[w]) < MiniBatchSize
                 THEN "dequeue" ELSE "process"]
  /\ UNCHANGED <<offPipeVars, inputVars, driverVars, expVars, roundVars, parserNext, job,
                 hitLists, cacheVars, emProcessed>>

\* obtained = alignmentCache.try_dequeue_bulk(it, batchCount - numConsumed)
EmDequeue(w) ==
  /\ pc = "replay"
  /\ wpc[w] = "dequeue"
  /\ LET obtained == Min(Len(alnGroupQueue), MiniBatchSize - Len(hitLists[w])) IN
       /\ hitLists' = [hitLists EXCEPT ![w] = @ \o Take(alnGroupQueue, obtained)]
       /\ alnGroupQueue' = Drop(alnGroupQueue, obtained)
  /\ wpc' = [wpc EXCEPT ![w] = "inner"]
  /\ UNCHANGED <<offPipeVars, inputVars, driverVars, expVars, writeToCache, outputGroups,
                 finishedParsing, numValidHits, parserNext, job, cacheVars,
                 emProcessed>>

\* an EM worker that does not count what it consumed
numConsumedNotCounted(w) == 0

\* numConsumed: the groups the EM worker dequeued for this mini-batch
numConsumed(w) == Len(hitLists[w])

\* the consumed groups are counted as observed, batchNum++, processMiniBatch,
\* and the groups go back to the pool (validHits of a cache-read round is a
\* statistic of processCachedAlignments that is only printed; it is left out)
EmProcess(w) ==
  /\ pc = "replay"
  /\ wpc[w] = "process"
  /\ numObservedFragments' = numObservedFragments + numConsumed(w)
  /\ batchNum_' = batchNum_ + 1
  /\ numAssignedFragments_' =
       numAssignedFragments_ + localNumAssignedFragments(hitLists[w])
  /\ burnedIn' = BurnedInAfter(numAssignedFragments_', burnedIn)
  /\ burnInSeen' = (burnInSeen \/ burnedIn')
  /\ groupCache' = groupCache + Len(hitLists[w])
  /\ emProcessed' = emProcessed \o hitLists[w]
  /\ wpc' = [wpc EXCEPT ![w] = "outer"]
  /\ UNCHANGED <<offPipeVars, inputVars, pc, numPrevObservedFragments, initialRound,
                 cacheFiles, roundNum, warnings, libIdx, numObservedFragments_,
                 totalAssignedFragments_, quantificationPasses_, roundVars,
                 parserNext, job, hitLists,
                 cacheVars>>

(***************************************************************************)
(* The pipeline                                                            *)
(***************************************************************************)
DriverStep ==
  \/ OuterLoopExit
  \/ FirstRound
  \/ ResetAndContinue
  \/ WarnAndBreak
  \/ processReads
  \/ MappingCallbackBegin
  \/ ArchiveBlockEnd
  \/ MappingWorkersJoined
  \/ MappingCallbackEnd
  \/ CacheCallbackBegin
  \/ CacheCallbackEnd
  \/ RoundEnd

MappingStep ==
  \E w \in Workers :
    \/ MapGetJob(w)
    \/ MapRead(w)
    \/ MapBatch(w)
    \/ MapEnqueueOutput(w)
    \/ MapEnqueuePool(w)

WriterStep ==
  \/ WriterOuterTest
  \/ WriterBlock
  \/ WriterCheck
  \/ WriterDrain

ReaderStep ==
  \/ ReaderRead
  \/ ReaderThrow
  \/ ReaderFinish

EmStep ==
  \E w \in Workers :
    \/ EmOuterTest(w)
    \/ EmInnerTest(w)
    \/ EmDequeue(w)
    \/ EmProcess(w)

(***************************************************************************)
(* TranscriptHitList: the votes of one read on one transcript, and the     *)
(* greedy coverage chainer computeBestChain / computeBestLoc_              *)
(***************************************************************************)
\* transcript positions of the matches: some close together, one beyond the
\* cluster gap
TPosSet == (0..MaxTPos) \cup {MaxTPos + ClusterGap + 1}

\* KmerVote
KmerVote(vp, rp, vl) == [votePos |-> vp, readPos |-> rp, voteLen |-> vl]

\* std::min over uint32_t of voteLen and (e - r), where e - r is computed
\* modulo 2^32: a negative difference wraps to a value above every voteLen
MinU32(voteLen, e, r) == IF e >= r THEN Min(voteLen, e - r) ELSE voteLen

\* the comparator of the two std::sort calls of computeBestChain
VoteLess(v1, v2) ==
  IF v1.votePos = v2.votePos THEN v1.readPos < v2.readPos
                             ELSE v1.votePos < v2.votePos

\* a vote list left in the order of its addFragMatch calls
SortSkipped(sv) == {sv}

\* the orders std::sort may leave a vote list in (votes that compare equal
\* may end in either order)
SortedOrders(sv) ==
  {t \in {[i \in 1..Len(sv) |-> sv[p[i]]] : p \in Permutations(1..Len(sv))} :
     \A i \in 1..Len(sv) : \A j \in (i + 1)..Len(sv) : ~VoteLess(t[j], t[i])}

\* VoteInfo of a cluster that has no entry in hitMap yet
VoteInfo0 == [coverage |-> 0, rightmostBase |-> 0]

\* one iteration of the loop of computeBestLoc_ over vote v; st holds
\* currClust, hitMap, maxClusterPos, maxClusterCount, maxClusterScore (the
\* quotient maxClusterCount / readLen as a pair), updatedMaxScore and whether
\* std::exit(1) was reached
LocStep(st, v) ==
  IF st.exited THEN st
  ELSE IF v.votePos < st.currClust THEN [st EXCEPT !.exited = TRUE]
  ELSE
    LET clust == IF v.votePos - st.currClust > ClusterGap
                   THEN v.votePos ELSE st.currClust
        entry == IF clust \in DOMAIN st.hitMap THEN st.hitMap[clust]
                                              ELSE VoteInfo0
        e     == v.votePos + v.readPos + v.voteLen
        cov   == entry.coverage + MinU32(v.voteLen, e, entry.rightmostBase)
        hm    == (clust :> [coverage |-> cov, rightmostBase |-> e]) @@ st.hitMap
    IN  IF cov > st.maxClusterCount
          THEN [st EXCEPT !.currClust = clust, !.hitMap = hm,
                          !.maxClusterPos = clust, !.maxClusterCount = cov,
                          !.maxClusterScore = <<cov, ReadLen>>,
                          !.updatedMaxScore = TRUE]
          ELSE [st EXCEPT !.currClust = clust, !.hitMap = hm]

RECURSIVE LocLoop(_, _, _)
LocLoop(st, sVotes, j) ==
  IF j > Len(sVotes) THEN st
  ELSE LocLoop(LocStep(st, sVotes[j]), sVotes, j + 1)

\* computeBestLoc_: best is <<maxClusterPos, maxClusterCount, maxClusterScore>>
\* on entry
computeBestLoc_(sVotes, maxPos, maxCount, maxScore) ==
  IF Len(sVotes) = 0
    THEN [maxClusterPos |-> maxPos, maxClusterCount |-> maxCount,
          maxClusterScore |-> maxScore,
          updatedMaxScore |-> FALSE, exited |-> FALSE]
    ELSE LET st0 == [currClust |-> sVotes[1].votePos, hitMap |-> <<>>,
                     maxClusterPos |-> maxPos, maxClusterCount |-> maxCount,
                     maxClusterScore |-> maxScore,
                     updatedMaxScore |-> FALSE, exited |-> FALSE]
             st  == LocLoop(st0, sVotes, 1)
         IN  [maxClusterPos |-> st.maxClusterPos,
              maxClusterCount |-> st.maxClusterCount,
              maxClusterScore |-> st.maxClusterScore,
              updatedMaxScore |-> st.updatedMaxScore, exited |-> st.exited]

\* a chainer whose reverse-complement call starts from an empty maximum
BestChainReverseLast(sv, sr) ==
  LET fw == computeBestLoc_(sv, 0, 0, <<0, 1>>)
      rc == computeBestLoc_(sr, 0, 0, <<0, 1>>)
      b  == IF rc.updatedMaxScore THEN rc ELSE fw
  IN  [bestHitPos |-> b.maxClusterPos, bestHitCount |-> b.maxClusterCount,
       bestHitScore |-> b.maxClusterScore,
       isForward |-> ~rc.updatedMaxScore, exited |-> fw.exited \/ rc.exited]

\* the two calls of computeBestChain over sorted lists: forward first, then
\* reverse-complement with the forward maximum still in maxClusterCount
BestChain(sv, sr) ==
  LET fw == computeBestLoc_(sv, 0, 0, <<0, 1>>)
      rc == computeBestLoc_(sr, fw.maxClusterPos, fw.maxClusterCount,
                            fw.maxClusterScore)
  IN  [bestHitPos |-> rc.maxClusterPos, bestHitCount |-> rc.maxClusterCount,
       bestHitScore |-> rc.maxClusterScore,
       isForward |-> ~rc.updatedMaxScore, exited |-> fw.exited \/ rc.exited]

ChainInit ==
  /\ votes = <<>>
  /\ rcVotes = <<>>
  /\ bestHitPos = 0
  /\ bestHitCount = 0
  /\ bestHitScore = <<0, 1>>
  /\ isForward_ = TRUE
  /\ chpc = "add"

\* addFragMatch(tpos, readPos, voteLen): a match of voteLen read bases from
\* readPos, at transcript position tpos
addFragMatch ==
  /\ chpc = "add"
  /\ Len(votes) + Len(rcVotes) < MaxVotes
  /\ \E tpos \in TPosSet, readPos \in 0..(ReadLen - 1) :
       \E voteLen \in 1..(ReadLen - readPos) :
         votes' = Append(votes, KmerVote(tpos - readPos, readPos, voteLen))
  /\ UNCHANGED <<pureVars, pipeVars, emVars, collectVars, rcVotes, bestHitPos, bestHitCount,
                 bestHitScore, isForward_, chpc>>

\* addFragMatchRC(tpos, readPos, voteLen, readLen)
addFragMatchRC ==
  /\ chpc = "add"
  /\ Len(votes) + Len(rcVotes) < MaxVotes
  /\ \E tpos \in TPosSet, readPos \in 0..(ReadLen - 1) :
       \E voteLen \in 1..(ReadLen - readPos) :
         rcVotes' = Append(rcVotes,
                           KmerVote(tpos - (ReadLen - readPos), readPos, voteLen))
  /\ UNCHANGED <<pureVars, pipeVars, emVars, collectVars, votes, bestHitPos, bestHitCount,
                 bestHitScore, isForward_, chpc>>

\* computeBestChain: both lists are sorted in place, then chained
computeBestChain ==
  /\ chpc = "add"
  /\ \E sv \in SortedOrders(votes), sr \in SortedOrders(rcVotes) :
       LET best == BestChain(sv, sr) IN
         /\ votes' = sv
         /\ rcVotes' = sr
         /\ IF best.exited
              THEN /\ chpc' = "exited"
                   /\ UNCHANGED <<bestHitPos, bestHitCount, bestHitScore, isForward_>>
              ELSE /\ chpc' = "chained"
                   /\ bestHitPos' = best.bestHitPos
                   /\ bestHitCount' = best.bestHitCount
                   /\ bestHitScore' = best.bestHitScore
                   /\ isForward_' = best.isForward
  /\ UNCHANGED <<pureVars, pipeVars, emVars, collectVars>>

ChainNext ==
  \/ addFragMatch
  \/ addFragMatchRC
  \/ computeBestChain

\* a vote list with the voteLen of vote j one longer
Longer(sv, j) == [sv EXCEPT ![j].voteLen = @ + 1]

\* vote j can be one base longer and still lie within the read
CanGrow(sv, j) == sv[j].readPos + sv[j].voteLen < ReadLen

\* C7: the coverage accumulated for the best cluster never exceeds the read
\* length, so that bestHitScore = bestHitCount / readLen lies in [0, 1].
C7_ScoreWithinUnitInterval ==
  chpc = "chained" => (0 <= bestHitCount /\ bestHitCount <= ReadLen)

\* C8: for the chained vote lists, making any single vote one base longer
\* (all other votes unchanged) never lowers the bestHitCount, and so the
\* bestHitScore, that computeBestChain reports.
C8_CoverageMonotoneInVoteLen ==
  chpc = "chained" =>
    /\ \A j \in 1..Len(votes) :
         CanGrow(votes, j) =>
           BestChain(Longer(votes, j), rcVotes).bestHitCount >= bestHitCount
    /\ \A j \in 1..Len(rcVotes) :
         CanGrow(rcVotes, j) =>
           BestChain(votes, Longer(rcVotes, j)).bestHitCount >= bestHitCount

(***************************************************************************)
(* collectHitsForRead: the votes of the seeds (MEMs) of one read           *)
(***************************************************************************)
Max(a, b) == IF a > b THEN a ELSE b

\* the MEM list of the read: seed i starts at read offset i - 1 and runs to
\* the end of the read; x2 is the size of its suffix-array interval
MemSet ==
  UNION {[1..n -> [x2 : 1..MaxInterval]] : n \in 0..Min(MaxSeeds, ReadLen)}

qstart(i) == i - 1
qend(i) == ReadLen
\* the length of seed i
SeedLen(i) == qend(i) - qstart(i)

\* what bwt_sa, bns_depos and bns_pos2rid report for one occurrence of a seed
\* of length sl: the strands of its first and last base, the transcripts of
\* its two ends, its transcript-relative position hitLoc, for a reversed
\* occurrence that straddles two transcripts endPos - offset[refIDEnd], and
\* for an occurrence that runs over the forward/reverse boundary of the
\* packed reference the number fwdLen of its bases before the boundary
Occ(rs, re, ids, ide, hl, l2, fl) ==
  [isRevStart |-> rs, isRevEnd |-> re, refIDStart |-> ids, refIDEnd |-> ide,
   hitLoc |-> hl, len2 |-> l2, fwdLen |-> fl]

Refs == 0..(NumRefs - 1)

OccSet(sl) ==
  \* the two ends on different strands: the first l bases are the last l
  \* bases of the forward half, that is of the last transcript
  {Occ(FALSE, TRUE, NumRefs - 1, NumRefs - 1, TLen - l, 1, l) :
     l \in 1..(sl - 1)}
  \* bns_pos2rid finds no transcript
  \cup {Occ(b, b, -1, 0, 0, 1, 0) : b \in BOOLEAN}
  \* within one transcript
  \cup {Occ(b, b, r, r, h, 1, 0) :
          b \in BOOLEAN, r \in Refs, h \in 0..(TLen - sl)}
  \* forward, over the end of transcript r1 into r2: l bases in r1
  \cup {Occ(FALSE, FALSE, rr[1], rr[2], TLen - l, 1, 0) :
          rr \in {x \in Refs \X Refs : x[1] # x[2]}, l \in 1..(sl - 1)}
  \* reversed, over two transcripts: l bases in refIDEnd
  \cup {Occ(TRUE, TRUE, rr[1], rr[2], 0, l, 0) :
          rr \in {x \in Refs \X Refs : x[1] # x[2]}, l \in 1..(sl - 1)}

\* isRevEnd as line 928 computes it: the strand of the base at
\* refStart + slen - 1, with the slen in use.  For an occurrence that runs
\* over the forward/reverse boundary that base lies behind the boundary
\* only when slen exceeds the number of bases before it.
isRevEndSeen(sl, o) ==
  IF o.isRevStart # o.isRevEnd THEN sl > o.fwdLen ELSE o.isRevEnd

NoVote == [voted |-> FALSE]
Vote(refID, rc, tpos, readPos, voteLen, rlen) ==
  [voted |-> TRUE, refID |-> refID, rc |-> rc, tpos |-> tpos,
   readPos |-> readPos, voteLen |-> voteLen, rlen |-> rlen]

\* the body of the loop over the occurrences of seed i, for occurrence o and
\* the current slen: the vote it adds (addFragMatch / addFragMatchRC) and the
\* slen it leaves for the next occurrence
OccBody(i, sl, o) ==
  IF o.isRevStart # isRevEndSeen(sl, o) THEN [vote |-> NoVote, slen |-> sl]
  ELSE IF o.refIDStart < 0 THEN [vote |-> NoVote, slen |-> sl]
  ELSE IF o.refIDStart = o.refIDEnd
    THEN [vote |-> Vote(o.refIDStart, o.isRevStart, o.hitLoc, qstart(i), sl,
                        ReadLen),
          slen |-> sl]
  ELSE IF ~splitSpanningSeeds THEN [vote |-> NoVote, slen |-> sl]
  ELSE IF ~o.isRevStart
    THEN LET len1 == TLen - o.hitLoc
             len2 == sl - len1
         IN  IF Max(len1, len2) < MinSeedLen
               THEN [vote |-> NoVote, slen |-> sl]
             ELSE IF len1 >= len2
               THEN [vote |-> Vote(o.refIDStart, FALSE, o.hitLoc, qstart(i),
                                   len1, ReadLen),
                     slen |-> len1]
               ELSE [vote |-> Vote(o.refIDEnd, FALSE, 0, qstart(i) + len1,
                                   len2, ReadLen),
                     slen |-> len2]
    \* len2 and len1 are unsigned 64-bit: when the seed length in use is
    \* smaller than len2, len1 wraps to a number larger than any length, and
    \* slen = len1 keeps its low bits, the negative number sl - len2
    ELSE LET len2 == o.len2
             len1 == sl - len2
             wrapped == sl < len2
         IN  IF ~wrapped /\ Max(len1, len2) < MinSeedLen
               THEN [vote |-> NoVote, slen |-> sl]
             ELSE IF wrapped \/ len1 >= len2
               THEN [vote |-> Vote(o.refIDStart, TRUE, TLen - len2,
                                   qstart(i) + len2, len1, ReadLen - len2),
                     slen |-> len1]
               ELSE [vote |-> Vote(o.refIDEnd, TRUE, len2, qstart(i), len2,
                                   len2 + qstart(i)),
                     slen |-> len2]

CollectInit ==
  /\ maxOcc \in 0..MaxOccBound
  /\ splitSpanningSeeds \in BOOLEAN
  /\ mem \in MemSet
  /\ memI = 1
  /\ occK = 0
  /\ count = 0
  /\ step = 1
  /\ slen = 0
  /\ numVotes = 0
  /\ lastVote = NoVote
  /\ cpc = "mem"

\* a step rounded up instead of down
seedStepCeil(x2, max_occ) ==
  IF x2 > max_occ THEN (x2 + max_occ - 1) \div max_occ ELSE 1

\* step = p->x[2] > max_occ ? p->x[2] / max_occ : 1, for max_occ > 0 or
\* x2 <= max_occ: an integer division
seedStep(x2, max_occ) ==
  IF x2 > max_occ THEN x2 \div max_occ ELSE 1

\* the head of the loop over the MEMs: slen = qend - qstart and
\*   step = p->x[2] > max_occ ? p->x[2] / max_occ : 1
\* With max_occ = 0 the division is a division by zero: the process is
\* killed, or step receives some value.
CollectSeed ==
  /\ cpc = "mem"
  /\ memI <= Len(mem)
  /\ slen' = SeedLen(memI)
  /\ occK' = 0
  /\ count' = 0
  /\ IF mem[memI].x2 > maxOcc /\ maxOcc = 0
       THEN \/ cpc' = "crashed" /\ UNCHANGED step
            \/ cpc' = "occ" /\ step' \in 0..MaxInterval
       ELSE cpc' = "occ" /\ step' = seedStep(mem[memI].x2, maxOcc)
  /\ UNCHANGED <<pureVars, pipeVars, emVars, chainVars, maxOcc, splitSpanningSeeds, mem, memI,
                 numVotes, lastVote>>

OccLoopTest == occK < mem[memI].x2 /\ count < maxOcc

\* one occurrence of the seed: for (...; k < p->x[2] && count < max_occ;
\* k += step, ++count).  The occurrence is one of a seed of the seed's
\* length; the body works with slen, which an earlier occurrence of the
\* same seed may have shortened.
CollectOccurrence ==
  /\ cpc = "occ"
  /\ OccLoopTest
  /\ \E o \in OccSet(SeedLen(memI)) :
       LET r == OccBody(memI, slen, o) IN
         /\ slen' = r.slen
         /\ lastVote' = r.vote
         /\ numVotes' = IF r.vote.voted THEN numVotes + 1 ELSE numVotes
  /\ occK' = occK + step
  /\ count' = count + 1
  /\ UNCHANGED <<pureVars, pipeVars, emVars, chainVars, maxOcc, splitSpanningSeeds, mem, memI,
                 step, cpc>>

\* the loop over the occurrences is left: next MEM
CollectSeedEnd ==
  /\ cpc = "occ"
  /\ ~OccLoopTest
  /\ memI' = memI + 1
  /\ cpc' = "mem"
  /\ UNCHANGED <<pureVars, pipeVars, emVars, chainVars, maxOcc, splitSpanningSeeds, mem, occK,
                 count, step, slen, numVotes, lastVote>>

\* the loop over the MEMs is left: collectHitsForRead returns
CollectReturn ==
  /\ cpc = "mem"
  /\ memI > Len(mem)
  /\ cpc' = "done"
  /\ UNCHANGED <<pureVars, pipeVars, emVars, chainVars, maxOcc, splitSpanningSeeds, mem, memI,
                 occK, count, step, slen, numVotes, lastVote>>

CollectNext ==
  \/ CollectSeed
  \/ CollectOccurrence
  \/ CollectSeedEnd
  \/ CollectReturn

\* C9: with maxOcc = 0 the hit collector never dies: it goes through every
\* seed, adds no vote and returns.
C9_MaxOccZeroCompletes ==
  maxOcc = 0 => (cpc # "crashed" /\ numVotes = 0)

\* an occurrence whose two ends lie in two transcripts
Straddles(o) ==
  o.isRevStart = o.isRevEnd /\ o.refIDStart >= 0 /\ o.refIDStart # o.refIDEnd

\* the number of bases of an occurrence o of a seed of length len that lie
\* in refIDStart and in refIDEnd
PartInStart(o, len) == IF o.isRevStart THEN len - o.len2 ELSE TLen - o.hitLoc
PartInEnd(o, len) == len - PartInStart(o, len)

\* C17: for a seed occurrence that straddles two transcripts: with
\* splitSpanningSeeds off no vote is produced; with it on, no vote is
\* produced when the longer part is shorter than minSeedLen, and otherwise
\* exactly one vote is produced, against the transcript holding the longer
\* part and with voteLen equal to that part's length.
C17_SpanningSeedVote ==
  [][(cpc = "occ" /\ count' = count + 1) =>
       \A o \in OccSet(SeedLen(memI)) :
         (/\ Straddles(o)
          /\ lastVote' = OccBody(memI, slen, o).vote
          /\ slen' = OccBody(memI, slen, o).slen) =>
           LET p1 == PartInStart(o, SeedLen(memI))
               p2 == PartInEnd(o, SeedLen(memI))
           IN IF ~splitSpanningSeeds \/ Max(p1, p2) < MinSeedLen
                THEN numVotes' = numVotes
                ELSE /\ numVotes' = numVotes + 1
                     /\ lastVote'.voteLen = Max(p1, p2)
                     /\ \/ p1 >= p2 /\ lastVote'.refID = o.refIDStart
                        \/ p2 >= p1 /\ lastVote'.refID = o.refIDEnd
  ]_vars

\* the occurrences of the current seed visited so far are k = 0, step, ...,
\* no more than maxOcc of them and all inside the interval
VisitsInSteps ==
  /\ occK = count * step
  /\ count <= maxOcc
  /\ count > 0 => (count - 1) * step < mem[memI].x2

TranscriptIds == 0..(NumTranscripts - 1)
InRange(tid) == tid \in TranscriptIds

\* an alignment: its target and its logProb, which is LOG_0, a finite value
\* ("p") or whatever an earlier use of the object left ("stale")
Aln(tid, lp) == [transcriptID |-> tid, logProb |-> lp]

\* the alignment groups that take k places of a mini-batch: k alignments,
\* or none (an empty group takes one place)
GroupsOfSize(k) ==
  [1..k -> {Aln(t, "stale") : t \in 0..NumTranscripts}]
    \cup (IF k = 1 THEN {<<>>} ELSE {})

\* the mini-batches of exactly c places
RECURSIVE BatchesOfSize(_)
BatchesOfSize(c) ==
  IF c = 0 THEN {<<>>}
  ELSE UNION {{<<g>> \o b : g \in GroupsOfSize(k), b \in BatchesOfSize(c - k)} :
                k \in 1..c}

BatchSet == UNION {BatchesOfSize(c) : c \in 0..MaxAlns}

\* a transcript: mass (TRUE when mass() != LOG_0), totalCount, uniqueCount
TranscriptSet == [mass : BOOLEAN, totalCount : {0}, uniqueCount : {0}]

\* the keys of hitsForTranscript, the reverse map built from the batch
HitKeys(b) ==
  {b[g][j].transcriptID : <<g, j>> \in {x \in (1..Len(b)) \X (1..MaxAlns) :
                                          x[2] <= Len(b[x[1]])}}

\* the alignments of the batch that target tid, as <<group, index>>
HitsFor(b, tid) ==
  {x \in (1..Len(b)) \X (1..MaxAlns) :
     x[2] <= Len(b[x[1]]) /\ b[x[1]][x[2]].transcriptID = tid}

EmInit ==
  /\ transcripts \in [TranscriptIds -> TranscriptSet]
  /\ batchHits \in BatchSet
  /\ updateCounts \in BOOLEAN
  /\ emBurnedIn \in BOOLEAN
  /\ emNumAssigned = 0
  /\ gIdx = 1
  /\ mKeys = HitKeys(batchHits)
  /\ libTypeCounts = 0
  /\ fldAdds = 0
  /\ clusterCredits = 0
  /\ oobAccesses = 0
  /\ oobLogged = 0
  /\ empc = "estep"

\* the out-of-range targets among the alignments of group g
OobAlns(g) == {j \in 1..Len(g) : ~InRange(g[j].transcriptID)}

\* E-step, a group of size 0: continue
\* an E-step that would count an empty group as an assigned fragment
EStepEmptyGroupAssigned ==
  /\ empc = "estep"
  /\ gIdx <= Len(batchHits)
  /\ Len(batchHits[gIdx]) = 0
  /\ gIdx' = gIdx + 1
  /\ emNumAssigned' = emNumAssigned + 1
  /\ UNCHANGED <<pureVars, pipeVars, chainVars, collectVars, transcripts, batchHits,
                 updateCounts, emBurnedIn, mKeys, libTypeCounts,
                 fldAdds, clusterCredits, oobAccesses, oobLogged, empc>>

EStepEmptyGroup ==
  /\ empc = "estep"
  /\ gIdx <= Len(batchHits)
  /\ Len(batchHits[gIdx]) = 0
  /\ gIdx' = gIdx + 1
  /\ UNCHANGED <<pureVars, pipeVars, chainVars, collectVars, transcripts, batchHits,
                 updateCounts, emBurnedIn, emNumAssigned, mKeys, libTypeCounts,
                 fldAdds, clusterCredits, oobAccesses, oobLogged, empc>>

\* E-step, a group with an out-of-range target: transcripts[transcriptID] is
\* indexed without a test, and the read of the element kills the process
EStepGroupCrash ==
  /\ empc = "estep"
  /\ gIdx <= Len(batchHits)
  /\ OobAlns(batchHits[gIdx]) # {}
  /\ oobAccesses' = oobAccesses + 1
  /\ empc' = "crashed"
  /\ UNCHANGED <<pureVars, pipeVars, chainVars, collectVars, transcripts, batchHits,
                 updateCounts, emBurnedIn, emNumAssigned, gIdx, mKeys,
                 libTypeCounts, fldAdds, clusterCredits, oobLogged>>

\* a count that would go up once for each alignment
totalCountPerAlignment(g, counted, t) ==
  IF updateCounts
    THEN Cardinality({j \in counted : g[j].transcriptID = t})
    ELSE 0

\* what the E-step over group g adds to the totalCount of transcript t:
\* addTotalCount(1) if updateCounts, the first time the transcript is met
\* among the alignments of g that pass the mass test (places `counted')
totalCountAdded(g, counted, t) ==
  IF updateCounts /\ t \in {g[j].transcriptID : j \in counted} THEN 1 ELSE 0

\* an E-step whose else branch leaves logProb as it found it
logProbElseUntouched(old, hasMass, ok) == IF hasMass /\ ok THEN "p" ELSE old

\* the logProb the E-step writes into an alignment that held `old':
\* aln.logProb = (transcriptLogCount - logRefLength) + logFragProb
\* + logAlignCompatProb when the transcript's mass is not LOG_0, and
\* aln.logProb = LOG_0 otherwise
logProbWritten(old, hasMass, ok) == IF hasMass /\ ok THEN "p" ELSE "LOG_0"

\* E-step, one group: the alignment probabilities, the normalisation with the
\* fragment-length updates, and the count and cluster updates.
\*   garbage : what mass() != LOG_0 gives for the element an out-of-range id
\*             reaches
\*   ok[j]   : logFragProb + logAlignCompatProb of alignment j is not LOG_0
\*   nFld    : the draws r < exp(logProb) of alignments with fragLength > 0
EStepGroup ==
  /\ empc = "estep"
  /\ gIdx <= Len(batchHits)
  /\ Len(batchHits[gIdx]) > 0
  /\ LET g == batchHits[gIdx]
         firstTranscriptID == g[1].transcriptID
         transcriptUnique == \A j \in 1..Len(g) : g[j].transcriptID = firstTranscriptID
     IN
     \E garbage \in BOOLEAN, ok \in [1..Len(g) -> BOOLEAN], nFld \in 0..Len(g) :
       LET hasMass(j) == IF InRange(g[j].transcriptID)
                           THEN transcripts[g[j].transcriptID].mass
                           ELSE garbage
           lp(j) == logProbWritten(g[j].logProb, hasMass(j), ok[j])
           counted == {j \in 1..Len(g) : hasMass(j)}
           observedTranscripts == {g[j].transcriptID : j \in counted}
           assigned == \E j \in 1..Len(g) : lp(j) = "p"
           \* accesses through an out-of-range id: the read of line 348 for
           \* each such alignment, addTotalCount, addUniqueCount
           oob == Cardinality(OobAlns(g))
                  + (IF updateCounts
                       THEN Cardinality({t \in observedTranscripts : ~InRange(t)})
                       ELSE 0)
                  + (IF assigned /\ transcriptUnique /\ updateCounts
                          /\ ~InRange(firstTranscriptID) THEN 1 ELSE 0)
       IN
       /\ (OobAlns(g) = {} => garbage = FALSE)
       /\ (emBurnedIn \/ ~assigned => nFld = 0)
       /\ batchHits' = [batchHits EXCEPT ![gIdx] =
                          [j \in 1..Len(g) |-> Aln(g[j].transcriptID, lp(j))]]
       /\ libTypeCounts' = libTypeCounts + Cardinality(counted)
       /\ transcripts' =
            [t \in TranscriptIds |->
               [mass |-> transcripts[t].mass,
                totalCount |-> transcripts[t].totalCount
                  + totalCountAdded(g, counted, t),
                uniqueCount |-> transcripts[t].uniqueCount
                  + (IF assigned /\ transcriptUnique /\ updateCounts
                          /\ t = firstTranscriptID THEN 1 ELSE 0)]]
       /\ emNumAssigned' = emNumAssigned + (IF assigned THEN 1 ELSE 0)
       /\ fldAdds' = fldAdds + nFld
       /\ clusterCredits' = clusterCredits + (IF assigned THEN 1 ELSE 0)
       /\ oobAccesses' = oobAccesses + oob
  /\ gIdx' = gIdx + 1
  /\ UNCHANGED <<pureVars, pipeVars, chainVars, collectVars, updateCounts, emBurnedIn,
                 mKeys, oobLogged, empc>>

\* the E-step loop is left
EStepEnd ==
  /\ empc = "estep"
  /\ gIdx > Len(batchHits)
  /\ empc' = "mstep"
  /\ UNCHANGED <<pureVars, pipeVars, chainVars, collectVars, transcripts, batchHits,
                 updateCounts, emBurnedIn, emNumAssigned, gIdx, mKeys,
                 libTypeCounts, fldAdds, clusterCredits, oobAccesses, oobLogged>>

\* the smallest key left: hitsForTranscript is iterated in key order
NextKey == CHOOSE t \in mKeys : \A u \in mKeys : t <= u

\* hitMass of the alignments that target tid is not LOG_0
HitMass(tid) ==
  \E x \in HitsFor(batchHits, tid) : batchHits[x[1]][x[2]].logProb = "p"

\* M-step, one key in range: transcript.addMass(logForgettingMass + hitMass)
MStepKey ==
  /\ empc = "mstep"
  /\ mKeys # {}
  /\ InRange(NextKey)
  /\ transcripts' = [transcripts EXCEPT ![NextKey].mass = @ \/ HitMass(NextKey)]
  /\ mKeys' = mKeys \ {NextKey}
  /\ UNCHANGED <<pureVars, pipeVars, chainVars, collectVars, batchHits, updateCounts,
                 emBurnedIn, emNumAssigned, gIdx, libTypeCounts, fldAdds,
                 clusterCredits, oobAccesses, oobLogged, empc>>

\* M-step, a key out of range: "index ... out of bounds" is written to
\* std::cerr and the loop body goes on: transcripts[transcriptID] is taken
\* and addMass is called on it, which corrupts memory or kills the process
MStepKeyOutOfRange ==
  /\ empc = "mstep"
  /\ mKeys # {}
  /\ ~InRange(NextKey)
  /\ oobLogged' = oobLogged + 1
  /\ oobAccesses' = oobAccesses + 1
  /\ \/ empc' = "crashed" /\ UNCHANGED mKeys
     \/ empc' = "mstep" /\ mKeys' = mKeys \ {NextKey}
  /\ UNCHANGED <<pureVars, pipeVars, chainVars, collectVars, transcripts, batchHits,
                 updateCounts, emBurnedIn, emNumAssigned, gIdx, libTypeCounts,
                 fldAdds, clusterCredits>>

\* numAssignedFragments += localNumAssignedFragments; the burn-in test;
\* readLib.updateLibTypeCounts
MiniBatchEnd ==
  /\ empc = "mstep"
  /\ mKeys = {}
  /\ emBurnedIn' = BurnedInAfter(emNumAssigned, emBurnedIn)
  /\ empc' = "done"
  /\ UNCHANGED <<pureVars, pipeVars, chainVars, collectVars, transcripts, batchHits,
                 updateCounts, emNumAssigned, gIdx, mKeys, libTypeCounts,
                 fldAdds, clusterCredits, oobAccesses, oobLogged>>

EmNext ==
  \/ EStepEmptyGroup
  \/ EStepGroupCrash
  \/ EStepGroup
  \/ EStepEnd
  \/ MStepKey
  \/ MStepKeyOutOfRange
  \/ MiniBatchEnd

\* C10: processMiniBatch never reads or writes transcript state through a
\* transcript id outside [0, N), and once it has logged such an id it has
\* stopped: it is not in, or past, the rest of the M-step.
C10_OutOfRangeIdAborts ==
  /\ oobAccesses = 0
  /\ oobLogged > 0 => empc \notin {"mstep", "done"}

\* group i went through the E-step with S != LOG_0 (some alignment has a
\* finite logProb): it survived normalisation
Survived(i) ==
  \E j \in 1..Len(batchHits[i]) : batchHits[i][j].logProb = "p"

\* every target of the batch is a transcript
AllInRange ==
  \A i \in 1..Len(batchHits) : OobAlns(batchHits[i]) = {}

RECURSIVE SurvivingAlns(_)
SurvivingAlns(i) ==
  IF i = 0 THEN 0
  ELSE SurvivingAlns(i - 1) + (IF Survived(i) THEN Len(batchHits[i]) ELSE 0)

\* C11: the library-type counters hold one credit for every alignment of
\* every group that survived normalisation, and none for a group that was
\* skipped because S = LOG_0.
C11_LibTypeCreditOnlyForSurvivors ==
  AllInRange => libTypeCounts = SurvivingAlns(gIdx - 1)

\* the E-step has just gone over group gIdx, which was not empty
GroupDone == empc = "estep" /\ gIdx' = gIdx + 1 /\ Len(batchHits[gIdx]) > 0

\* C19: for every surviving alignment group (S # LOG_0) whose alignments all
\* target one transcript id, that transcript's uniqueCount is incremented by
\* 1 and its cluster is credited once, in whichever round the group is
\* processed; a surviving group with several targets credits the merged
\* cluster once.
C19_UniqueCountEveryRound ==
  [][(/\ GroupDone
      /\ AllInRange
      /\ \E j \in 1..Len(batchHits[gIdx]) : batchHits'[gIdx][j].logProb = "p") =>
       LET g == batchHits[gIdx]
           first == g[1].transcriptID
       IN /\ clusterCredits' = clusterCredits + 1
          /\ (\A j \in 1..Len(g) : g[j].transcriptID = first) =>
               transcripts'[first].uniqueCount = transcripts[first].uniqueCount + 1
  ]_vars

\* every transcript has a mass that is not LOG_0, as transcripts have from
\* their construction with the prior alpha on
HaveMass == \A t \in TranscriptIds : transcripts[t].mass

\* C20: a transcript's totalCount is incremented only when updateCounts is
\* set, which is during the first pass, and then by exactly 1 for each
\* alignment group in which the transcript appears, however many alignments
\* of that group target it; in a later pass, and in every other step of the
\* worker, totalCount is unchanged.
C20_TotalCountOncePerGroup ==
  [][(AllInRange /\ HaveMass) =>
       \A t \in TranscriptIds :
         transcripts'[t].totalCount =
           transcripts[t].totalCount
             + (IF /\ GroupDone
                   /\ updateCounts
                   /\ \E j \in 1..Len(batchHits[gIdx]) :
                        batchHits[gIdx][j].transcriptID = t
                  THEN 1 ELSE 0)
  ]_vars

\* in the first pass a group with two alignments to one transcript has been
\* gone over, and the transcript's totalCount is 1
C20_Witness ==
  /\ AllInRange /\ HaveMass /\ updateCounts
  /\ gIdx = 2
  /\ Len(batchHits[1]) = 2
  /\ batchHits[1][1].transcriptID = batchHits[1][2].transcriptID
  /\ transcripts[batchHits[1][1].transcriptID].totalCount = 1

\* the E-step is at an empty group, or the whole mini-batch is empty groups
AtEmptyGroup ==
  empc = "estep" /\ gIdx <= Len(batchHits) /\ Len(batchHits[gIdx]) = 0
OnlyEmptyGroups ==
  \A i \in 1..Len(batchHits) : Len(batchHits[i]) = 0

\* C13: processing an alignment group of size 0 changes no transcript mass,
\* totalCount or uniqueCount, no cluster, no FLD entry, no library-type
\* counter and does not advance numAssignedFragments: neither the E-step over
\* the group nor, for a mini-batch of empty groups only, the M-step and the
\* end of the mini-batch.
C13_EmptyGroupIsNoOp ==
  [][(AtEmptyGroup \/ OnlyEmptyGroups) =>
       UNCHANGED <<transcripts, clusterCredits, fldAdds, libTypeCounts,
                   emNumAssigned>>]_vars

\* a mini-batch holding an empty group has been processed to its end
C13_Witness ==
  /\ empc = "done"
  /\ \E i \in 1..Len(batchHits) : Len(batchHits[i]) = 0

(***************************************************************************)
(* LibraryFormat.  A format is (type, orientation, strandedness); formatID *)
(* packs it into one byte, formatFromID unpacks the byte.                  *)
(***************************************************************************)
ReadTypes == <<"SINGLE_END", "PAIRED_END">>
ReadOrientations == <<"SAME", "AWAY", "TOWARD", "NONE">>
ReadStrandednesses == <<"SA", "AS", "S", "A", "U">>

\* the position of x in the enumeration e, counted from 0
EnumIndex(e, x) == (CHOOSE i \in 1..Len(e) : e[i] = x) - 1
\* the enumerator of e with value n; a value past the enumeration stays a
\* number
EnumValue(e, n) == IF n < Len(e) THEN e[n + 1] ELSE n

FormatSet ==
  [type : {ReadTypes[i] : i \in 1..Len(ReadTypes)},
   orientation : {ReadOrientations[i] : i \in 1..Len(ReadOrientations)},
   strandedness : {ReadStrandednesses[i] : i \in 1..Len(ReadStrandednesses)}]

\* LibraryFormat::formatID: bit 0 the type, bits 1-2 the orientation,
\* bits 3-5 the strandedness, as a uint8_t
formatID(f) ==
  (EnumIndex(ReadTypes, f.type)
     + 2 * EnumIndex(ReadOrientations, f.orientation)
     + 8 * EnumIndex(ReadStrandednesses, f.strandedness)) % 256

\* LibraryFormat::formatFromID
formatFromID(id) ==
  [type |-> EnumValue(ReadTypes, id % 2),
   orientation |-> EnumValue(ReadOrientations, (id \div 2) % 4),
   strandedness |-> EnumValue(ReadStrandednesses, (id \div 8) % 8)]

(***************************************************************************)
(* The mapping cache, one record: an AlignmentGroup is written with        *)
(* AlignmentGroup::serialize through SMEMAlignment::save and read back     *)
(* into a group object taken from the pool through SMEMAlignment::load.    *)
(* An SMEMAlignment is [transcriptID_, format_, score_, fragLength_,       *)
(* logProb]; logProb is not archived.                                      *)
(***************************************************************************)
SMEMAlignmentSet ==
  [transcriptID_ : 0..MaxField, format_ : FormatSet, score_ : 0..MaxField,
   fragLength_ : 0..MaxField, logProb : {"p"}]

\* SMEMAlignment(): what a vector gives a new element; its transcriptID_ is
\* the largest TranscriptID
DefaultAlignment ==
  [transcriptID_ |-> "max", format_ |-> formatFromID(0), score_ |-> 0,
   fragLength_ |-> 0, logProb |-> "LOG_0"]

\* what a pool object may still hold from the group it carried before
StaleAlignments ==
  {[transcriptID_ |-> MaxField, format_ |-> f, score_ |-> MaxField,
    fragLength_ |-> MaxField, logProb |-> "stale"] :
     f \in {formatFromID(0), formatFromID(formatID(
              [type |-> "PAIRED_END", orientation |-> "TOWARD",
               strandedness |-> "U"]))}}

\* the sequences over S of length at most n
RECURSIVE SeqsUpTo(_, _)
SeqsUpTo(S, n) ==
  IF n = 0 THEN {<<>>}
  ELSE LET shorter == SeqsUpTo(S, n - 1) IN
         shorter \cup {Append(q, x) : q \in shorter, x \in S}

\* the groups written: any first alignment, followed by alignments of a
\* small set
WrittenGroups ==
  {<<>>} \cup
  {<<a>> \o rest : a \in SMEMAlignmentSet,
                  rest \in SeqsUpTo({[x EXCEPT !.logProb = "p"] :
                                       x \in StaleAlignments},
                                    MaxGroupLen - 1)}

\* SMEMAlignment::save: archive(transcriptID_, format_.formatID(), score_,
\* fragLength_)
save(a) == <<a.transcriptID_, formatID(a.format_), a.score_, a.fragLength_>>

\* an SMEMAlignment::load that would leave format_ as it was
loadKeepingFormat(old, rec) ==
  [old EXCEPT !.transcriptID_ = rec[1], !.score_ = rec[3],
              !.fragLength_ = rec[4]]

\* SMEMAlignment::load into the object old: the four archived fields are
\* assigned, format_ from formatFromID
load(old, rec) ==
  [old EXCEPT !.transcriptID_ = rec[1], !.format_ = formatFromID(rec[2]),
              !.score_ = rec[3], !.fragLength_ = rec[4]]

\* AlignmentGroup::serialize, writing: the vector goes out as its length and
\* its elements in order
serializeOut(g) == [size |-> Len(g), items |-> [i \in 1..Len(g) |-> save(g[i])]]

\* AlignmentGroup::serialize, reading into the group object old: the vector
\* is resized to the archived length (elements it already has are kept,
\* new ones are default-constructed) and each element is loaded in place
serializeIn(old, rec) ==
  [i \in 1..rec.size |->
     load(IF i <= Len(old) THEN old[i] ELSE DefaultAlignment, rec.items[i])]

SerInit ==
  /\ cacheGroup \in WrittenGroups
  /\ cacheRecord = serializeOut(<<>>)
  /\ loadGroup \in SeqsUpTo(StaleAlignments, MaxGroupLen)
  /\ serpc = "write"

\* writeAlignmentCacheToFile: outputArchive(*alnGroup)
CacheWriteGroup ==
  /\ serpc = "write"
  /\ cacheRecord' = serializeOut(cacheGroup)
  /\ serpc' = "read"
  /\ UNCHANGED <<pipeVars, chainVars, collectVars, emVars, fmtVars, pairVars, massVars,
                 cacheGroup,
                 loadGroup>>

\* readAlignmentCache: inputArchive(*alnGroup) on a group from the pool
CacheReadGroup ==
  /\ serpc = "read"
  /\ loadGroup' = serializeIn(loadGroup, cacheRecord)
  /\ serpc' = "loaded"
  /\ UNCHANGED <<pipeVars, chainVars, collectVars, emVars, fmtVars, pairVars, massVars,
                 cacheGroup,
                 cacheRecord>>

SerNext ==
  \/ CacheWriteGroup
  \/ CacheReadGroup

\* the archived fields of a group, in order
ArchivedFields(g) ==
  [i \in 1..Len(g) |->
     <<g[i].transcriptID_, formatID(g[i].format_), g[i].score_, g[i].fragLength_>>]

\* C14: a group written to the cache and read back, into a pool object that
\* held another group before, has as many alignments as the written group,
\* in the same order, each with the same transcriptId, formatID, score and
\* fragLength.
C14_CacheRoundTrip ==
  serpc = "loaded" => ArchivedFields(loadGroup) = ArchivedFields(cacheGroup)

\* a group of several alignments was read into an object that held a shorter
\* group: its first element is reused, its last one is new
C14_Witness ==
  /\ serpc = "loaded"
  /\ Len(loadGroup) = MaxGroupLen
  /\ loadGroup[1].logProb = "stale"
  /\ loadGroup[MaxGroupLen].logProb = "LOG_0"
  /\ loadGroup[1].format_ # DefaultAlignment.format_

(***************************************************************************)
(* The format term of an alignment's probability: logAlignFormatProb and   *)
(* its use in the E-step of processMiniBatch.  The results are the named   *)
(* logarithms LOG_0 = log 0, LOG_ONEHALF = log 0.5, LOG_1 = log 1 = 0.     *)
(***************************************************************************)
\* a logAlignFormatProb that would test the observed strandedness for U
logAlignFormatProbObservedU(observed, expected) ==
  IF observed.type # expected.type \/ observed.orientation # expected.orientation
    THEN "LOG_0"
    ELSE IF observed.strandedness = "U" THEN "LOG_ONEHALF"
    ELSE IF expected.strandedness = observed.strandedness THEN "LOG_1"
    ELSE "LOG_0"

logAlignFormatProb(observed, expected) ==
  IF observed.type # expected.type \/ observed.orientation # expected.orientation
    THEN "LOG_0"
    ELSE IF expected.strandedness = "U" THEN "LOG_ONEHALF"
    ELSE IF expected.strandedness = observed.strandedness THEN "LOG_1"
    ELSE "LOG_0"

FormatInit ==
  /\ observedFormat \in FormatSet
  /\ expectedLibraryFormat \in FormatSet
  /\ useReadCompat \in BOOLEAN
  /\ logFormatProb = "none"
  /\ logAlignCompatProb = "none"
  /\ fmtpc = "start"

\* processMiniBatch, E-step: logAlignCompatProb = useReadCompat ?
\* logAlignFormatProb(aln.libFormat(), expectedLibraryFormat) : LOG_1.
\* logFormatProb keeps what logAlignFormatProb gives for the two formats,
\* called or not.
FormatTerm ==
  /\ fmtpc = "start"
  /\ logFormatProb' = logAlignFormatProb(observedFormat, expectedLibraryFormat)
  /\ logAlignCompatProb' =
       IF useReadCompat
         THEN logAlignFormatProb(observedFormat, expectedLibraryFormat)
         ELSE "LOG_1"
  /\ fmtpc' = "done"
  /\ UNCHANGED <<pipeVars, chainVars, collectVars, emVars, serVars, pairVars, massVars,
                 observedFormat, expectedLibraryFormat, useReadCompat>>

\* C15: logAlignFormatProb(observed, expected) is LOG_0 when read type or
\* orientation differ; when they agree it is log 0.5 if the expected format
\* is unstranded, LOG_1 if expected and observed strandedness are equal, and
\* LOG_0 otherwise; with useReadCompat off the format term of logProb is
\* LOG_1 whatever the formats.
C15_FormatTerm ==
  fmtpc = "done" =>
    LET o == observedFormat
        e == expectedLibraryFormat
        agree == o.type = e.type /\ o.orientation = e.orientation
    IN /\ ~agree => logFormatProb = "LOG_0"
       /\ (agree /\ e.strandedness = "U") => logFormatProb = "LOG_ONEHALF"
       /\ (agree /\ e.strandedness # "U" /\ e.strandedness = o.strandedness) =>
            logFormatProb = "LOG_1"
       /\ (agree /\ e.strandedness # "U" /\ e.strandedness # o.strandedness) =>
            logFormatProb = "LOG_0"
       /\ useReadCompat => logAlignCompatProb = logFormatProb
       /\ ~useReadCompat => logAlignCompatProb = "LOG_1"

\* a stranded paired-end read against the expected format (PE, TOWARD, U),
\* with useReadCompat on
C15_Witness ==
  /\ fmtpc = "done"
  /\ useReadCompat
  /\ expectedLibraryFormat =
       [type |-> "PAIRED_END", orientation |-> "TOWARD", strandedness |-> "U"]
  /\ observedFormat =
       [type |-> "PAIRED_END", orientation |-> "TOWARD", strandedness |-> "SA"]
  /\ logAlignCompatProb = "LOG_ONEHALF"

(***************************************************************************)
(* getHitsForFragment for a read pair, after collectHitsForRead has filled *)
(* leftHits and rightHits and computeBestChain has scored them.  A hit map *)
(* gives each transcript NoHit or [bestHitScore, bestHitPos].  Scores are  *)
(* counted in quarters of ScoreSteps, so that the mean of two scores is a  *)
(* whole number of units.  The LibraryFormat of the alignment comes from   *)
(* salmon::utils::hitType and is left out.                                 *)
(***************************************************************************)
PairTargets == {0, 1}
NoHit == [hit |-> FALSE]
ScoreSet == {2 * i : i \in 0..ScoreSteps}
PairPosSet == {-1, MaxPairPos}
HitSet ==
  {NoHit} \cup [hit : {TRUE}, bestHitScore : ScoreSet, bestHitPos : PairPosSet]

Abs(x) == IF x < 0 THEN -x ELSE x

\* a test of the pair that would look at the first end's score only
pairSurvivesLeft(l, r, cutoff) ==
  /\ l.hit
  /\ l.bestHitScore >= cutoff

\* it != leftHits.end() and it->second.bestHitScore >= cutoffLeft, and not
\* tHitList.second.bestHitScore < cutoffRight
pairSurvives(l, r, cutoff) ==
  /\ l.hit
  /\ l.bestHitScore >= cutoff
  /\ ~(r.bestHitScore < cutoff)

\* the alignment emplaced for transcript t
pairAlignment(t, l, r, readLen2) ==
  [transcriptID_ |-> t,
   score_ |-> (l.bestHitScore + r.bestHitScore) \div 2,
   fragLength_ |-> Abs(l.bestHitPos - r.bestHitPos) + readLen2]

PairInit ==
  /\ leftHits \in [PairTargets -> HitSet]
  /\ rightHits \in [PairTargets -> HitSet]
  /\ coverageThresh \in ScoreSet
  /\ rightReadLength = ReadLen
  /\ rightDone = {}
  /\ alnList = <<>>
  /\ pairpc = "right"

\* one turn of for (auto& tHitList : rightHits), in the order the unordered
\* map gives
PairRightHit ==
  /\ pairpc = "right"
  /\ \E t \in PairTargets \ rightDone :
       /\ rightHits[t].hit
       /\ rightDone' = rightDone \cup {t}
       /\ alnList' =
            IF pairSurvives(leftHits[t], rightHits[t], coverageThresh)
              THEN Append(alnList, pairAlignment(t, leftHits[t], rightHits[t],
                                                 rightReadLength))
              ELSE alnList
  /\ UNCHANGED <<pipeVars, chainVars, collectVars, emVars, serVars, fmtVars, massVars,
                 leftHits, rightHits, coverageThresh, rightReadLength, pairpc>>

\* the loop over rightHits is over
PairReturn ==
  /\ pairpc = "right"
  /\ \A t \in PairTargets \ rightDone : ~rightHits[t].hit
  /\ pairpc' = "done"
  /\ UNCHANGED <<pipeVars, chainVars, collectVars, emVars, serVars, fmtVars, massVars,
                 leftHits, rightHits, coverageThresh, rightReadLength, rightDone,
                 alnList>>

PairNext ==
  \/ PairRightHit
  \/ PairReturn

\* the places of alnList that hold an alignment to transcript t
AlnsOn(t) == {i \in 1..Len(alnList) : alnList[i].transcriptID_ = t}

\* C16: for a read pair, exactly one alignment is emitted for transcript t
\* if both ends have votes on t and each end's bestHitScore is at least
\* coverageThresh, and none otherwise; its score is the mean of the two end
\* scores and its fragLength is |end1Start - end2Start| + readLen2.
C16_PairedAlignment ==
  pairpc = "done" =>
    \A t \in PairTargets :
      LET l == leftHits[t]
          r == rightHits[t]
      IN IF l.hit /\ r.hit /\ l.bestHitScore >= coverageThresh
              /\ r.bestHitScore >= coverageThresh
           THEN /\ Cardinality(AlnsOn(t)) = 1
                /\ \A i \in AlnsOn(t) :
                     /\ 2 * alnList[i].score_ = l.bestHitScore + r.bestHitScore
                     /\ alnList[i].fragLength_ =
                          Abs(l.bestHitPos - r.bestHitPos) + rightReadLength
           ELSE AlnsOn(t) = {}

\* one transcript where both ends pass, the second end left of the first,
\* and one transcript where only the first end passes
C16_Witness ==
  /\ pairpc = "done"
  /\ Len(alnList) = 1
  /\ \E t, u \in PairTargets :
       /\ AlnsOn(t) # {}
       /\ leftHits[t].bestHitPos > rightHits[t].bestHitPos
       /\ leftHits[t].bestHitScore # rightHits[t].bestHitScore
       /\ leftHits[u].hit /\ rightHits[u].hit
       /\ leftHits[u].bestHitScore >= coverageThresh
       /\ rightHits[u].bestHitScore < coverageThresh

(***************************************************************************)
(* The forgetting mass: the lines between the end of a job and the call of *)
(* processMiniBatch, run by every mapping worker (processReadsMEM) and     *)
(* every EM worker (processCachedAlignmentsHelper).  Doubles are fixed     *)
(* point numbers, Scale units to one.                                      *)
(***************************************************************************)
\* a double, in units of 1 / Scale
Scale == 10000
\* forgettingFactor = 0.65, in hundredths
forgettingFactor == 65
\* mini-batches of the run
MaxBatches == 4

\* std::log of a positive number: 2 atanh((x - 1) / (x + 1)) by its series
log(x) ==
  LET z == ((x - Scale) * Scale) \div (x + Scale)
      z2 == (z * z) \div Scale
      RECURSIVE series(_, _)
      series(zk, k) ==
        IF k > 41 THEN 0 ELSE zk \div k + series((zk * z2) \div Scale, k + 2)
  IN 2 * series(z, 1)

\* std::exp by its series
exp(x) ==
  LET RECURSIVE series(_, _)
      series(term, k) ==
        IF k > 12 THEN 0 ELSE term + series((term * x) \div (k * Scale), k + 1)
  IN series(Scale, 1)

\* std::pow(b, ff) of a batch number b, ff in hundredths
pow(b, ff) == exp((ff * log(b * Scale)) \div 100)

\* an increment with the two logarithms exchanged
forgettingIncrementNegated(b) ==
  log(pow(b, forgettingFactor) - Scale)
    - (forgettingFactor * log((b - 1) * Scale)) \div 100

\* forgettingFactor * log(oldBatchNum - 1) - log(pow(oldBatchNum, forgettingFactor) - 1)
forgettingIncrement(b) ==
  (forgettingFactor * log((b - 1) * Scale)) \div 100
    - log(pow(b, forgettingFactor) - Scale)

\* a mutex that is granted whoever holds it
ffMutexAlwaysFree == TRUE

\* ffMutex.lock() returns only while no thread holds the mutex
ffMutexFree == ffMutex = 0

\* quantifyLibrary: logForgettingMass{std::log(1.0)}, batchNum_{0}
MassInit ==
  /\ numBatches \in 0..MaxBatches
  /\ batchNum = 0
  /\ logForgettingMass = 0
  /\ ffMutex = 0
  /\ mpc = [w \in Workers |-> "top"]
  /\ oldBatchNum = [w \in Workers |-> 0]
  /\ massRead = [w \in Workers |-> 0]
  /\ applied = <<>>
  /\ passed = <<>>

\* auto oldBatchNum = batchNum++; if (oldBatchNum > 1)
MassTakeBatch(w) ==
  /\ mpc[w] = "top"
  /\ batchNum < numBatches
  /\ oldBatchNum' = [oldBatchNum EXCEPT ![w] = batchNum]
  /\ batchNum' = batchNum + 1
  /\ mpc' = [mpc EXCEPT ![w] = IF batchNum > 1 THEN "lock" ELSE "call"]
  /\ UNCHANGED <<pipeVars, chainVars, collectVars, emVars, serVars, fmtVars,
                 pairVars, numBatches, logForgettingMass, ffMutex, massRead,
                 applied, passed>>

\* the job is empty: the worker returns
MassReturn(w) ==
  /\ mpc[w] = "top"
  /\ batchNum >= numBatches
  /\ mpc' = [mpc EXCEPT ![w] = "done"]
  /\ UNCHANGED <<pipeVars, chainVars, collectVars, emVars, serVars, fmtVars,
                 pairVars, numBatches, batchNum, logForgettingMass, ffMutex,
                 oldBatchNum, massRead, applied, passed>>

\* ffMutex.lock()
MassLock(w) ==
  /\ mpc[w] = "lock"
  /\ ffMutexFree
  /\ ffMutex' = w
  /\ mpc' = [mpc EXCEPT ![w] = "load"]
  /\ UNCHANGED <<pipeVars, chainVars, collectVars, emVars, serVars, fmtVars,
                 pairVars, numBatches, batchNum, logForgettingMass, oldBatchNum,
                 massRead, applied, passed>>

\* logForgettingMass += ...: the read of the old value
MassLoad(w) ==
  /\ mpc[w] = "load"
  /\ massRead' = [massRead EXCEPT ![w] = logForgettingMass]
  /\ mpc' = [mpc EXCEPT ![w] = "store"]
  /\ UNCHANGED <<pipeVars, chainVars, collectVars, emVars, serVars, fmtVars,
                 pairVars, numBatches, batchNum, logForgettingMass, ffMutex,
                 oldBatchNum, applied, passed>>

\* logForgettingMass += ...: the write of the sum
MassStore(w) ==
  /\ mpc[w] = "store"
  /\ logForgettingMass' = massRead[w] + forgettingIncrement(oldBatchNum[w])
  /\ applied' = Append(applied, oldBatchNum[w])
  /\ mpc' = [mpc EXCEPT ![w] = "unlock"]
  /\ UNCHANGED <<pipeVars, chainVars, collectVars, emVars, serVars, fmtVars,
                 pairVars, numBatches, batchNum, ffMutex, oldBatchNum, massRead,
                 passed>>

\* ffMutex.unlock()
MassUnlock(w) ==
  /\ mpc[w] = "unlock"
  /\ ffMutex' = 0
  /\ mpc' = [mpc EXCEPT ![w] = "call"]
  /\ UNCHANGED <<pipeVars, chainVars, collectVars, emVars, serVars, fmtVars,
                 pairVars, numBatches, batchNum, logForgettingMass, oldBatchNum,
                 massRead, applied, passed>>

\* processMiniBatch(logForgettingMass, ...): the parameter is a double taken
\* by value, so the call reads the shared variable, with no lock around it
MassCall(w) ==
  /\ mpc[w] = "call"
  /\ passed' = Append(passed, <<oldBatchNum[w], logForgettingMass>>)
  /\ mpc' = [mpc EXCEPT ![w] = "top"]
  /\ UNCHANGED <<pipeVars, chainVars, collectVars, emVars, serVars, fmtVars,
                 pairVars, numBatches, batchNum, logForgettingMass, ffMutex,
                 oldBatchNum, massRead, applied>>

MassNext ==
  \E w \in Workers :
    \/ MassTakeBatch(w)
    \/ MassReturn(w)
    \/ MassLock(w)
    \/ MassLoad(w)
    \/ MassStore(w)
    \/ MassUnlock(w)
    \/ MassCall(w)

\* C24: every read and every write of logForgettingMass by a worker is made
\* while that worker holds ffMutex, the read for processMiniBatch included.
C24_MassAccessUnderMutex ==
  \A w \in Workers : mpc[w] \in {"load", "store", "call"} => ffMutex = w

\* C25: mini-batches get distinct batch numbers, the increment of a batch
\* number is applied once for every number from 2 on and for no earlier
\* number, and when all workers have returned logForgettingMass is the sum of
\* these increments, whatever the interleaving was.
C25_EveryIncrementOnce ==
  LET RECURSIVE sumTo(_)
      sumTo(b) == IF b < 2 THEN 0 ELSE forgettingIncrement(b) + sumTo(b - 1)
  IN
  /\ \A i, j \in 1..Len(passed) : passed[i][1] = passed[j][1] => i = j
  /\ \A w, v \in Workers :
       (w # v /\ mpc[w] \notin {"top", "done"} /\ mpc[v] \notin {"top", "done"})
         => oldBatchNum[w] # oldBatchNum[v]
  /\ \A i, j \in 1..Len(applied) : applied[i] = applied[j] => i = j
  /\ \A i \in 1..Len(applied) : applied[i] >= 2
  /\ (\A w \in Workers : mpc[w] = "done") =>
       /\ {applied[i] : i \in 1..Len(applied)} = 2..(batchNum - 1)
       /\ logForgettingMass = sumTo(batchNum - 1)

\* all workers have returned and two increments were applied out of order
C25_Witness ==
  /\ \A w \in Workers : mpc[w] = "done"
  /\ Len(applied) >= 2
  /\ applied[1] > applied[2]

\* C26 as written: logForgettingMass never grows, every update adds an
\* amount <= 0.
C26_MassNeverGrows ==
  [][logForgettingMass' <= logForgettingMass]_vars

\* C26: logForgettingMass is monotonically increasing: every between-batch
\* update adds an amount > 0.
C26_MassOnlyGrows ==
  [][logForgettingMass' # logForgettingMass
       => logForgettingMass' > logForgettingMass]_vars

\* two updates have been applied
C26_Witness ==
  Len(applied) >= 2 /\ logForgettingMass > forgettingIncrement(2)

(***************************************************************************)
(* The specifications                                                      *)
(***************************************************************************)
\* the chainer at rest, while another specification runs
ChainIdle ==
  /\ votes = <<>>
  /\ rcVotes = <<>>
  /\ bestHitPos = 0
  /\ bestHitCount = 0
  /\ bestHitScore = <<0, 1>>
  /\ isForward_ = TRUE
  /\ chpc = "idle"

\* the hit collector at rest
CollectIdle ==
  /\ maxOcc = 1
  /\ splitSpanningSeeds = FALSE
  /\ mem = <<>>
  /\ memI = 1
  /\ occK = 0
  /\ count = 0
  /\ step = 1
  /\ slen = 0
  /\ numVotes = 0
  /\ lastVote = NoVote
  /\ cpc = "idle"

\* the cache record at rest
SerIdle ==
  /\ cacheGroup = <<>>
  /\ cacheRecord = serializeOut(<<>>)
  /\ loadGroup = <<>>
  /\ serpc = "idle"

\* the format term at rest
FmtIdle ==
  /\ observedFormat = formatFromID(0)
  /\ expectedLibraryFormat = formatFromID(0)
  /\ useReadCompat = FALSE
  /\ logFormatProb = "none"
  /\ logAlignCompatProb = "none"
  /\ fmtpc = "idle"

\* getHitsForFragment at rest
PairIdle ==
  /\ leftHits = [t \in PairTargets |-> NoHit]
  /\ rightHits = [t \in PairTargets |-> NoHit]
  /\ coverageThresh = 0
  /\ rightReadLength = ReadLen
  /\ rightDone = {}
  /\ alnList = <<>>
  /\ pairpc = "idle"

\* the single-function sections at rest
\* the forgetting mass at rest
MassIdle ==
  /\ numBatches = 0
  /\ batchNum = 0
  /\ logForgettingMass = 0
  /\ ffMutex = 0
  /\ mpc = [w \in Workers |-> "top"]
  /\ oldBatchNum = [w \in Workers |-> 0]
  /\ massRead = [w \in Workers |-> 0]
  /\ applied = <<>>
  /\ passed = <<>>

PureIdle == SerIdle /\ FmtIdle /\ PairIdle /\ MassIdle

\* the mini-batch EM worker at rest
EmIdle ==
  /\ transcripts = [t \in TranscriptIds |->
                      [mass |-> TRUE, totalCount |-> 0, uniqueCount |-> 0]]
  /\ batchHits = <<>>
  /\ updateCounts = TRUE
  /\ emBurnedIn = FALSE
  /\ emNumAssigned = 0
  /\ gIdx = 1
  /\ mKeys = {}
  /\ libTypeCounts = 0
  /\ fldAdds = 0
  /\ clusterCredits = 0
  /\ oobAccesses = 0
  /\ oobLogged = 0
  /\ empc = "idle"

Init == PipeInit /\ ChainIdle /\ CollectIdle /\ EmIdle /\ PureIdle

Next ==
  \/ DriverStep
  \/ MappingStep
  \/ WriterStep
  \/ ReaderStep
  \/ EmStep

Spec == Init /\ [][Next]_vars

\* the pipeline at rest
PipeIdle ==
  /\ numRequiredFragments = 1
  /\ disableMappingCache = FALSE
  /\ readLibraries = <<[n |-> 0, regular |-> TRUE]>>
  /\ roundLimit = MaxRounds
  /\ PipeStart

InitChain == ChainInit /\ PipeIdle /\ CollectIdle /\ EmIdle /\ PureIdle

SpecChain == InitChain /\ [][ChainNext]_vars

InitCollect == CollectInit /\ PipeIdle /\ ChainIdle /\ EmIdle /\ PureIdle

SpecCollect == InitCollect /\ [][CollectNext]_vars

InitEM == EmInit /\ PipeIdle /\ ChainIdle /\ CollectIdle /\ PureIdle

SpecEM == InitEM /\ [][EmNext]_vars

InitSer ==
  SerInit /\ PipeIdle /\ ChainIdle /\ CollectIdle /\ EmIdle /\ FmtIdle /\ PairIdle /\ MassIdle

SpecSer == InitSer /\ [][SerNext]_vars

InitFormat ==
  FormatInit /\ PipeIdle /\ ChainIdle /\ CollectIdle /\ EmIdle /\ SerIdle /\ PairIdle /\ MassIdle

SpecFormat == InitFormat /\ [][FormatTerm]_vars

InitPair ==
  PairInit /\ PipeIdle /\ ChainIdle /\ CollectIdle /\ EmIdle /\ SerIdle /\ FmtIdle /\ MassIdle

SpecPair == InitPair /\ [][PairNext]_vars

InitMass ==
  MassInit /\ PipeIdle /\ ChainIdle /\ CollectIdle /\ EmIdle /\ SerIdle /\ FmtIdle
    /\ PairIdle

SpecMass == InitMass /\ [][MassNext]_vars

(***************************************************************************)
(* ReadExperiment::reset and ReadExperiment::softReset on their own, from  *)
(* any values of the counters                                              *)
(***************************************************************************)
\* largest value of a ReadExperiment counter tried
MaxCount == 2

\* the counters of a ReadExperiment
counters ==
  [numObservedFragments_ |-> numObservedFragments_,
   numAssignedFragments_ |-> numAssignedFragments_,
   totalAssignedFragments_ |-> totalAssignedFragments_,
   quantificationPasses_ |-> quantificationPasses_,
   batchNum_ |-> batchNum_]

\* the counters receive the values of c
SetCounters(c) ==
  /\ numObservedFragments_' = c.numObservedFragments_
  /\ numAssignedFragments_' = c.numAssignedFragments_
  /\ totalAssignedFragments_' = c.totalAssignedFragments_
  /\ quantificationPasses_' = c.quantificationPasses_
  /\ batchNum_' = c.batchNum_

\* softReset: numObservedFragments_ = 0; totalAssignedFragments_ +=
\* numAssignedFragments_; numAssignedFragments_ = 0; quantificationPasses_++
softResetCounters(c) ==
  [c EXCEPT !.numObservedFragments_ = 0,
            !.totalAssignedFragments_ = @ + c.numAssignedFragments_,
            !.numAssignedFragments_ = 0,
            !.quantificationPasses_ = @ + 1]

\* a reset that also starts the batch numbers over
resetCountersAndBatchNum(c) ==
  [numObservedFragments_ |-> 0,
   numAssignedFragments_ |-> 0,
   totalAssignedFragments_ |-> c.totalAssignedFragments_ + c.numAssignedFragments_,
   quantificationPasses_ |-> c.quantificationPasses_ + 1,
   batchNum_ |-> 0]

\* reset, after the test of the read files: the same four statements; the
\* line that would zero batchNum_ is commented out
resetCounters(c) ==
  [numObservedFragments_ |-> 0,
   numAssignedFragments_ |-> 0,
   totalAssignedFragments_ |-> c.totalAssignedFragments_ + c.numAssignedFragments_,
   quantificationPasses_ |-> c.quantificationPasses_ + 1,
   batchNum_ |-> c.batchNum_]

\* what reset and softReset leave alone
resetFrame ==
  <<offPipeVars, inputVars, numObservedFragments, numPrevObservedFragments,
    initialRound, cacheFiles, groupCache, roundNum, warnings, libIdx, burnedIn,
    burnInSeen, roundVars, workerVars, cacheVars, emProcessed>>

\* bool reset(): for (auto& rl : readLibraries_)
\*   if (!rl.isRegularFile()) { return false; }
reset ==
  /\ pc = "atReset"
  /\ IF \E i \in 1..NumLibs : ~readLibraries[i].regular
       THEN /\ pc' = "resetFalse"
            /\ UNCHANGED <<numObservedFragments_, numAssignedFragments_,
                           totalAssignedFragments_, quantificationPasses_,
                           batchNum_>>
       ELSE /\ pc' = "resetTrue"
            /\ SetCounters(resetCounters(counters))
  /\ UNCHANGED resetFrame

\* bool softReset()
softReset ==
  /\ pc = "atReset"
  /\ pc' = "softResetTrue"
  /\ SetCounters(softResetCounters(counters))
  /\ UNCHANGED resetFrame

ResetNext ==
  \/ reset
  \/ softReset

\* an experiment in any state of its counters, about to be reset
ResetInit ==
  /\ numRequiredFragments = 1
  /\ disableMappingCache = TRUE
  /\ readLibraries \in InputSet
  /\ roundLimit = MaxRounds
  /\ pc = "atReset"
  /\ numObservedFragments = 0
  /\ numPrevObservedFragments = 0
  /\ initialRound = FALSE
  /\ cacheFiles = <<>>
  /\ groupCache = structCacheSize
  /\ roundNum = 0
  /\ warnings = 0
  /\ libIdx = 0
  /\ numObservedFragments_ \in 0..MaxCount
  /\ numAssignedFragments_ \in 0..MaxCount
  /\ totalAssignedFragments_ \in 0..MaxCount
  /\ batchNum_ \in 0..MaxCount
  /\ quantificationPasses_ \in 0..MaxCount
  /\ burnedIn = FALSE
  /\ burnInSeen = FALSE
  /\ writeToCache = FALSE
  /\ outputGroups = <<>>
  /\ alnGroupQueue = <<>>
  /\ finishedParsing = FALSE
  /\ numValidHits = 0
  /\ parserNext = 1
  /\ wpc = [w \in Workers |-> "none"]
  /\ job = [w \in Workers |-> <<>>]
  /\ hitLists = [w \in Workers |-> <<>>]
  /\ cwpc = "none"
  /\ crpc = "none"
  /\ numRead = 0
  /\ emProcessed = <<>>

InitReset == ResetInit /\ ChainIdle /\ CollectIdle /\ EmIdle /\ PureIdle

SpecReset == InitReset /\ [][ResetNext]_vars

(***************************************************************************)
(* The pipeline followed until its rounds stop, under fair scheduling.     *)
(* One library of one fragment with numRequiredFragments = 2 and the       *)
(* mapping cache on is followed for as many passes as the group pool has   *)
(* groups; every other input is followed for MaxRounds passes, as in Spec. *)
(***************************************************************************)
LongRun ==
  /\ ~disableMappingCache
  /\ numRequiredFragments = 2
  /\ readLibraries = <<[n |-> 1, regular |-> TRUE]>>

InitLive ==
  /\ numRequiredFragments \in 1..MaxRequired
  /\ disableMappingCache \in BOOLEAN
  /\ readLibraries \in InputSet
  /\ roundLimit = IF LongRun THEN structCacheSize + 2 ELSE MaxRounds
  /\ PipeStart
  /\ ChainIdle /\ CollectIdle /\ EmIdle /\ PureIdle

\* every thread that can take a step is scheduled in the end: the driver,
\* each mapping worker, the cache writer, the cache reader, each EM worker.
\* A thread that spins on an empty pool (try_dequeue fails) takes no step.
FairThreads ==
  /\ WF_vars(DriverStep)
  /\ WF_vars(WriterStep)
  /\ WF_vars(ReaderStep)
  /\ \A w \in Workers :
       /\ WF_vars(MapGetJob(w) \/ MapRead(w) \/ MapBatch(w)
                    \/ MapEnqueueOutput(w) \/ MapEnqueuePool(w))
       /\ WF_vars(EmOuterTest(w) \/ EmInnerTest(w) \/ EmDequeue(w)
                    \/ EmProcess(w))

SpecLive == InitLive /\ [][Next]_vars /\ FairThreads

\* C33: every round terminates: once a library's callback has started its
\* threads, the waits on the group pool end, the workers leave their loops
\* and the joins complete, so the callback returns (unless the cache reader
\* has died on a short cache file), in every round of a multi-round run.
C33_EveryRoundTerminates ==
  [](pc \in {"archiveBlock", "mapping", "joinWriter", "replay"} =>
       <>(pc \in {"callback", "roundEnd"} \/ crpc = "crashed"))

\* C36: reset returns false and changes none of numObservedFragments_,
\* numAssignedFragments_, totalAssignedFragments_, quantificationPasses_,
\* batchNum_ when the read file of some library is not a regular file;
\* otherwise it returns true and the counters are those softReset leaves.
C36_ResetFalseOrSoftReset ==
  [][(pc = "atReset" /\ pc' \in {"resetFalse", "resetTrue"}) =>
       IF AllRegular
         THEN pc' = "resetTrue" /\ counters' = softResetCounters(counters)
         ELSE pc' = "resetFalse" /\ counters' = counters
  ]_vars

\* reset has refused an experiment with a read file that is not regular,
\* whose counters were not zero
C36_Witness ==
  /\ pc = "resetFalse"
  /\ numObservedFragments_ > 0
  /\ numAssignedFragments_ > 0
  /\ batchNum_ > 0

(***************************************************************************)
(* Claims about the pipeline (specification Spec)                          *)
(***************************************************************************)
cumulativeAssigned == totalAssignedFragments_ + numAssignedFragments_

\* the cache-read round that is ending (initialRound is reset after roundEnd)
CacheRoundEnds == pc = "roundEnd" /\ ~mappingRound

\* the occurrences of cache record <<i, k>> among the groups the EM workers
\* processed in the round
TimesProcessed(i, k) ==
  Cardinality({j \in 1..Len(emProcessed) :
                 emProcessed[j][1] = i /\ emProcessed[j][2] = k})

\* C1: at the end of every round, when all workers, the cache writer and the
\* cache reader are joined, every pre-allocated alignment group is back in
\* the pool.
C1_AllGroupsBackInPool ==
  pc = "roundEnd" => groupCache = structCacheSize

\* C2: at the end of a cache-read round every record the reader re-hydrated
\* (numWritten per library) has been processed by an EM worker in exactly one
\* mini-batch.
C2_EveryRehydratedGroupProcessed ==
  CacheRoundEnds =>
    \A i \in 1..NumLibs :
      \A k \in 1..cacheFiles[i].numWritten : TimesProcessed(i, k) = 1

\* C3: with the mapping cache enabled, round 0 leaves for every library a
\* cache file whose numWritten is the number of fragments mapped from that
\* library, as long as the observed count has not exceeded
\* numRequiredFragments.
C3_OneCacheFilePerLibrary ==
  (/\ pc = "roundEnd"
   /\ initialRound
   /\ ~disableMappingCache
   /\ numObservedFragments <= numRequiredFragments) =>
    \A i \in 1..NumLibs : cacheFiles[i].numWritten = readLibraries[i].n

\* C4: when every pass over a re-readable input yields the same n > 0
\* fragments, numObservedFragments has grown by n in each finished pass, and
\* the loop is left after the first pass at which the count reaches
\* numRequiredFragments.
C4_ObservedGrowsByNPerPass ==
  (AllRegular /\ TotalFrags > 0) =>
    /\ pc \in {"roundEnd", "done"} =>
         numObservedFragments = roundNum * TotalFrags
    /\ pc = "done" =>
         /\ (roundNum - 1) * TotalFrags < numRequiredFragments
         /\ numRequiredFragments <= roundNum * TotalFrags

\* C5 (as amended): when a read file is not a regular file and the mapping
\* cache is disabled, no second pass is started, and the loop is left with
\* exactly one warning when fewer than numRequiredFragments were observed
\* (with none when enough were); with the mapping cache enabled softReset
\* succeeds and the warning is never logged.
C5_PipeBreaksWhenCacheDisabled ==
  /\ (~AllRegular /\ disableMappingCache) =>
       /\ roundNum <= 1
       /\ pc = "done" =>
            warnings = IF numObservedFragments < numRequiredFragments
                         THEN 1 ELSE 0
  /\ ~disableMappingCache => warnings = 0

\* C5, witness: a pipe, the mapping cache disabled, too few fragments after
\* the first pass: the loop was left with the warning logged once
C5_Witness ==
  /\ pc = "done"
  /\ ~AllRegular
  /\ disableMappingCache
  /\ numObservedFragments < numRequiredFragments
  /\ roundNum = 1
  /\ warnings = 1

\* C5 (as claimed): when a read file is not a regular file no second pass is
\* started, and the loop is left with the warning when too few fragments were
\* observed, for either setting of disableMappingCache.
C5_PipeAlwaysBreaks ==
  ~AllRegular =>
    /\ roundNum <= 1
    /\ (pc = "done" /\ numObservedFragments < numRequiredFragments) =>
         warnings = 1

\* C6: while a round runs, once the cumulative number of assigned fragments
\* (over all rounds and libraries) has reached numBurninFrags, burnedIn is
\* true.
C6_BurnedInOnceCumulativeReached ==
  (pc \in {"mapping", "joinWriter", "replay"}
     /\ cumulativeAssigned >= NumBurninFrags) => burnedIn

\* the group a mapping worker w has just put into its mini-batch, if any
JustMapped(w) == pc = "mapping" /\ Len(hitLists'[w]) = Len(hitLists[w]) + 1
Overfull(g) == FoundHits(g) > MaxReadOccs

\* C12: a fragment whose group holds more than maxReadOccs alignments is
\* cleared to size 0, is counted once in numObservedFragments, adds nothing
\* to numValidHits and adds nothing to numAssignedFragments when its
\* mini-batch is processed; a group of exactly maxReadOccs alignments keeps
\* all of them and adds them to numValidHits.
C12_OverfullGroupCleared ==
  [][\A w \in Workers :
       /\ JustMapped(w) =>
            LET g == hitLists'[w][Len(hitLists'[w])] IN
              /\ numObservedFragments' = numObservedFragments + 1
              /\ numValidHits' = numValidHits + GroupSize(g)
              /\ Overfull(g) => GroupSize(g) = 0
              /\ FoundHits(g) = MaxReadOccs => GroupSize(g) = MaxReadOccs
       /\ (pc = "mapping" /\ wpc[w] = "batch" /\ wpc'[w] # "batch") =>
            numAssignedFragments_' - numAssignedFragments_ <=
              Cardinality({i \in 1..Len(hitLists[w]) : ~Overfull(hitLists[w][i])})
  ]_vars

\* mini-batches holding a cleared group and a group of exactly maxReadOccs
\* alignments have been processed
C12_Witness ==
  \E w, v \in Workers :
    /\ pc = "mapping"
    /\ wpc[w] \in {"toOutput", "toPool"}
    /\ wpc[v] \in {"toOutput", "toPool"}
    /\ \E i \in 1..Len(hitLists[w]), j \in 1..Len(hitLists[v]) :
         /\ Overfull(hitLists[w][i])
         /\ FoundHits(hitLists[v][j]) = MaxReadOccs

\* a mini-batch with an assigned fragment is processed while burnedIn is
\* false: processMiniBatch may call fragLengthDist.addVal for its alignments
FldUpdateStep ==
  ~burnedIn /\ numAssignedFragments_' > numAssignedFragments_

\* C21: the fragment-length distribution is updated only while burnedIn is
\* false, and after burnedIn has become true no update of it happens.
C21_NoFldUpdateAfterBurnIn ==
  [][burnInSeen => ~FldUpdateStep]_vars


\* C22: a worker that detects a fatal condition (here the M-step's test of an
\* out-of-range transcript id) signals it and stops there: on the step of the
\* detection it does not go on to use the id, and it does not bring the
\* process down itself.
C22_FatalConditionSignalled ==
  [][oobLogged' > oobLogged =>
       (oobAccesses' = oobAccesses /\ empc' \notin {"crashed", "mstep"})]_vars

\* C23: every group a mapping worker puts on the output queue is serialized
\* by the cache writer and returned to the pool: when the writer of a library
\* has been joined, no group is left on the output queue, also when the
\* writer turned writeToCache off between a worker's test and its enqueue.
C23_OutputGroupsAllWritten ==
  (pc = "joinWriter" /\ cwpc \in {"none", "done"}) => outputGroups = <<>>

\* C27: at every moment each pooled alignment group is in exactly one place:
\* the pool, a worker's mini-batch, the output queue (or the writer's block)
\* or the alignment queue (or the reader's hand); none is in two places and
\* none is in no place.
\* (an EM worker back at its outer loop test has returned its mini-batch to
\* the pool; its vector still holds the pointers until the next resize)
C27_EveryGroupInOnePlace ==
  LET held(w) == IF pc = "replay" /\ wpc[w] = "outer" THEN 0 ELSE Len(hitLists[w])
  IN groupCache + Len(outputGroups) + Len(alnGroupQueue)
       + SumSeq([w \in Workers |-> held(w)]) = structCacheSize

\* C28: a library's cache file is completely written and closed (its writer
\* joined) before a reader opens it in a later round, and the reader
\* deserializes exactly the numWritten records the writer counted: the file
\* holds that many records, the reader does not fail on it and has read
\* numWritten records when it finishes.
C28_ReaderSeesWhatWriterWrote ==
  /\ crpc # "none" => cwpc = "none"
  /\ crpc # "crashed"
  /\ crpc \in {"read", "done"} =>
       Len(cacheFiles[libIdx].records) = cacheFiles[libIdx].numWritten
  /\ crpc = "done" => numRead = cacheFiles[libIdx].numWritten

\* the driver needs another pass and the mapping cache is enabled: it calls
\* experiment.softReset()
AtSoftReset ==
  /\ pc = "loopTest"
  /\ numObservedFragments < numRequiredFragments
  /\ ~initialRound
  /\ ~disableMappingCache
  /\ roundNum < roundLimit

\* C29: softReset sets numObservedFragments_ and numAssignedFragments_ to 0,
\* adds the old numAssignedFragments_ to totalAssignedFragments_ (their sum is
\* preserved) and always returns true (the driver goes on to the next pass
\* and logs no warning); it leaves batchNum_, the transcripts and the read
\* libraries unchanged.
C29_SoftResetFrame ==
  [][AtSoftReset =>
       /\ numObservedFragments_' = 0
       /\ numAssignedFragments_' = 0
       /\ totalAssignedFragments_' = totalAssignedFragments_ + numAssignedFragments_
       /\ totalAssignedFragments_' + numAssignedFragments_' = cumulativeAssigned
       /\ pc' = "processReads"
       /\ warnings' = warnings
       /\ batchNum_' = batchNum_
       /\ transcripts' = transcripts
       /\ readLibraries' = readLibraries]_vars

\* a pass has started after a softReset that moved assigned fragments to the
\* running total
C29_Witness ==
  /\ pc = "processReads"
  /\ roundNum > 1
  /\ ~disableMappingCache
  /\ totalAssignedFragments_ > 0
  /\ numAssignedFragments_ = 0
  /\ batchNum_ > 0

\* C30: computeBestChain reports the orientation whose best cluster has the
\* larger coverage: isForward is false exactly when the best reverse-
\* complement cluster coverage strictly exceeds the best forward one (ties and
\* the no-vote case report forward); bestHitCount is that coverage, bestHitPos
\* the start of the winning cluster, and bestHitScore = bestHitCount / readLen.
C30_BestOrientationWins ==
  chpc = "chained" =>
    LET fw == computeBestLoc_(votes, 0, 0, <<0, 1>>)
        rc == computeBestLoc_(rcVotes, 0, 0, <<0, 1>>)
    IN  /\ isForward_ = ~(rc.maxClusterCount > fw.maxClusterCount)
        /\ bestHitCount = Max(fw.maxClusterCount, rc.maxClusterCount)
        /\ bestHitPos = IF isForward_ THEN fw.maxClusterPos ELSE rc.maxClusterPos
        /\ bestHitScore[1] * ReadLen = bestHitCount * bestHitScore[2]

\* a read with votes in both orientations whose best clusters tie was chained
C30_Witness ==
  /\ chpc = "chained"
  /\ votes # <<>>
  /\ rcVotes # <<>>
  /\ computeBestLoc_(votes, 0, 0, <<0, 1>>).maxClusterCount
       = computeBestLoc_(rcVotes, 0, 0, <<0, 1>>).maxClusterCount
  /\ isForward_
  /\ bestHitCount > 0

(***************************************************************************)
(* Occurrences over the strand boundary, termination of the rounds,        *)
(* burn-in over the run, the counters of reset                             *)
(***************************************************************************)
\* C31: a seed occurrence whose first and last base lie on different
\* strands of the packed reference adds no vote, to either vote list.
C31_StrandCrossingAddsNoVote ==
  [][(cpc = "occ" /\ count' = count + 1) =>
       \A o \in OccSet(SeedLen(memI)) :
         (/\ o.isRevStart # o.isRevEnd
          /\ lastVote' = OccBody(memI, slen, o).vote
          /\ slen' = OccBody(memI, slen, o).slen) =>
           (numVotes' = numVotes /\ ~lastVote'.voted)
  ]_vars

\* C35: an occurrence of a seed that lies within one transcript is voted
\* with voteLen equal to the full seed length qend - qstart, whatever
\* happened to the earlier occurrences of the same seed.
C35_UnsplitOccurrenceFullLength ==
  [][(cpc = "occ" /\ count' = count + 1 /\ numVotes' = numVotes + 1) =>
       \A o \in OccSet(SeedLen(memI)) :
         (/\ o.isRevStart = o.isRevEnd
          /\ o.refIDStart = o.refIDEnd
          /\ lastVote' = OccBody(memI, slen, o).vote
          /\ slen' = OccBody(memI, slen, o).slen) =>
           lastVote'.voteLen = SeedLen(memI)
  ]_vars

\* C37: computeBestChain sorts both vote lists by (votePos, readPos) before
\* chaining, so computeBestLoc_ never meets a vote with votePos < currClust:
\* the chainer never exits the process, for any vote list.
C37_ChainerNeverExits == chpc # "exited"

\* a list of two votes further apart than the cluster gap was chained:
\* currClust moved from the first vote's position to the second's
C37_Witness ==
  /\ chpc = "chained"
  /\ \E l \in {votes, rcVotes} :
       /\ Len(l) = 2
       /\ l[2].votePos - l[1].votePos > ClusterGap

\* C38: at every moment of a run the cumulative number of assigned
\* fragments, totalAssignedFragments_ + numAssignedFragments_, is at most
\* the driver's numObservedFragments, in mapping rounds and in cache-read
\* rounds.
C38_AssignedAtMostObserved ==
  totalAssignedFragments_ + numAssignedFragments_ <= numObservedFragments

\* a cache-read round in which an EM worker has just counted a mini-batch:
\* fragments were assigned in this round and in an earlier one
C38_Witness ==
  /\ pc = "replay"
  /\ emProcessed # <<>>
  /\ numAssignedFragments_ > 0
  /\ totalAssignedFragments_ > 0

\* C34: burnedIn is monotone over the whole run: once it has been true it
\* never falls back to false, at the start of a later library or round or
\* within one.
C34_BurnedInMonotone == [][burnedIn => burnedIn']_vars

\* C40: the cache writer thread serializes only through an output archive
\* that is still alive: from the start of the writer thread until it has
\* been joined the BinaryOutputArchive it was handed has not been destroyed.
C40_ArchiveAliveUntilJoin ==
  cwpc # "none" => cacheFiles[Len(cacheFiles)].archiveInScope

\* C39: every logProb that the M-step adds into a transcript's mass was
\* written by the E-step of the same mini-batch: when the M-step runs, no
\* alignment of the batch still holds the logProb an earlier use of the
\* object, or the cache reader, left in it.
C39_NoStaleLogProbInMStep ==
  empc \in {"mstep", "done"} =>
    \A i \in 1..Len(batchHits) : \A j \in 1..Len(batchHits[i]) :
      batchHits[i][j].logProb # "stale"

\* the M-step of a replayed mini-batch (updateCounts off) that holds a group
\* the E-step skipped, all its alignments at LOG_0, beside a group that
\* survived
C39_Witness ==
  /\ empc = "mstep"
  /\ ~updateCounts
  /\ \E i, k \in 1..Len(batchHits) :
       /\ Len(batchHits[i]) > 0
       /\ \A j \in 1..Len(batchHits[i]) : batchHits[i][j].logProb = "LOG_0"
       /\ \E j \in 1..Len(batchHits[k]) : batchHits[k][j].logProb = "p"

\* C32: the outer loop of quantifyLibrary does not go round without
\* numObservedFragments growing: when the round just finished added no
\* observed fragment (numObservedFragments is what it was when the round
\* started, a library of zero fragments included), the loop does not start
\* another round.
C32_NoRoundAfterRoundWithoutGrowth ==
  [][(/\ pc = "loopTest"
      /\ ~initialRound
      /\ numObservedFragments = numPrevObservedFragments) =>
       pc' # "processReads"
  ]_vars

====
